---- MODULE Spec2Model ----
(***************************************************************************)
(* Model of the caching and data-loading layer of places2go:               *)
(*   scripts/core/performance.py  TTLCache, cache_with_ttl, memoize        *)
(*   scripts/data/base_api.py     CacheManager, RateLimiter, BaseAPIClient *)
(*   scripts/core/data_loader.py  DataLoader load_* and clear_cache        *)
(* Each subsystem has its own specification over the shared variables;     *)
(* the variables of the other subsystems stay at their initial values.     *)
(***************************************************************************)
EXTENDS Integers, Sequences, FiniteSets, TLC

VARIABLES
    now,        \* datetime.now(), in whole ticks
    max_size,   \* TTLCache.max_size
    cache,      \* TTLCache._cache: OrderedDict as a sequence, oldest first
    hits,       \* TTLCache._hits
    misses,     \* TTLCache._misses
    acc,        \* history: stored key -> rank of its most recent access (0: not stored)
    setAt,      \* history: stored key -> time, ttl and value of the set that stored it
    gets,       \* history: number of get calls since the last clear
    last,       \* history: the operation just performed, what it returned, the keys it
                \* removed and which of those were unexpired
    kfn,        \* which key function is in use: cache_with_ttl, memoize or with_cache
    kstored,    \* the call whose result is stored, with its key (<<>>: nothing stored)
    kprobe,     \* the call that looked the cache up, its key and whether it hit (<<>>: none yet)
    files,      \* the backing CSV file of each dataset
    slot,       \* DataLoader.<dataset>_df: <<>> for None, <<table>> for a cached table
    sinceEvent, \* history: tables read from each file since the last clear_cache or reload
    lret,       \* history: the DataLoader call just made and its outcome
    held,       \* the table the last load call returned, as the caller holds it (<<>>: it raised)
    data,       \* filters, merges and validation: the contents of the backing files
    df,         \* filters: the cached table under study, <<>> for None
    out,        \* filters, merges, validation and API clients: the call just made and its outcome
    clock,      \* API clients: time.time() / datetime.now(), in whole seconds
    calls,      \* RateLimiter.calls: the recorded call times, in the order recorded
    sent        \* history: the times the limiter let a call through / the HTTP attempts made

cacheVars == <<now, max_size, cache, hits, misses, acc, setAt, gets, last>>

keyVars == <<kfn, kstored, kprobe>>

loaderVars == <<files, slot, sinceEvent, lret, held>>

apiVars == <<clock, calls, sent>>

viewVars == <<data, df, out, apiVars>>

vars == <<now, max_size, cache, hits, misses, acc, setAt, gets, last, kfn, kstored, kprobe,
          files, slot, sinceEvent, lret, held, data, df, out, clock, calls, sent>>

(***************************************************************************)
(* Bounds                                                                  *)
(***************************************************************************)
MaxTime == 2    \* the clock runs from 0 to MaxTime
MaxGets == 2    \* get calls between two clears
MaxArgs == 2    \* positional arguments of a cached call

None == "None"

Keys     == {"a", "b", "c"}
Capacities == {1, 2}   \* the values of max_size: the smallest one and the one of test_cache_max_size
Values   == {None, "v1"}
TTLs     == {1}
default_ttl == 2

NoSet == [t |-> 0, ttl |-> 0, v |-> None]

NoOp == [op |-> "init", key |-> None, ret |-> None, case |-> None, evicted |-> {}, live |-> {}]

(***************************************************************************)
(* OrderedDict helpers                                                     *)
(***************************************************************************)
KeysOf(c) == {c[i].key : i \in DOMAIN c}

EntryOf(c, k) == c[CHOOSE i \in DOMAIN c : c[i].key = k]

Without(c, k) == SelectSeq(c, LAMBDA e : e.key # k)

\* OrderedDict.move_to_end(key)
move_to_end(c, k) == Without(c, k) \o <<EntryOf(c, k)>>

\* OrderedDict.popitem(last=True): a cache that evicts the newest entry
popitem_newest(c) == SubSeq(c, 1, Len(c) - 1)

\* OrderedDict.popitem(last=False)
popitem(c) == Tail(c)

\* self._cache[key] = entry: an existing key keeps its position
setitem(c, e) ==
    IF e.key \in KeysOf(c)
    THEN [i \in DOMAIN c |-> IF c[i].key = e.key THEN e ELSE c[i]]
    ELSE Append(c, e)

(***************************************************************************)
(* CacheEntry                                                              *)
(***************************************************************************)
CacheEntry(k, v, ttl, t) == [key |-> k, value |-> v, expiry |-> t + ttl]

\* expiry that already holds at the expiry instant
is_expired_at_expiry(e, t) == t >= e.expiry

is_expired(e, t) == t > e.expiry

(***************************************************************************)
(* TTLCache.get as a function of the cache: the new cache, whether the     *)
(* lookup was a hit, and the value returned                                *)
(***************************************************************************)
\* a get that reports an expired entry as a miss but leaves it stored
get_result_keep_expired(c, k, t) ==
    IF k \in KeysOf(c) /\ ~is_expired(EntryOf(c, k), t)
    THEN [cache |-> move_to_end(c, k), hit |-> TRUE, ret |-> EntryOf(c, k).value]
    ELSE [cache |-> c, hit |-> FALSE, ret |-> None]

\* a get that does not refresh the recency of the entry it returns
get_result_no_refresh(c, k, t) ==
    IF k \in KeysOf(c)
    THEN IF ~is_expired(EntryOf(c, k), t)
         THEN [cache |-> c, hit |-> TRUE, ret |-> EntryOf(c, k).value]
         ELSE [cache |-> Without(c, k), hit |-> FALSE, ret |-> None]
    ELSE [cache |-> c, hit |-> FALSE, ret |-> None]

get_result(c, k, t) ==
    IF k \in KeysOf(c)
    THEN IF ~is_expired(EntryOf(c, k), t)
         THEN [cache |-> move_to_end(c, k), hit |-> TRUE,
               ret |-> EntryOf(c, k).value]
         ELSE [cache |-> Without(c, k), hit |-> FALSE, ret |-> None]
    ELSE [cache |-> c, hit |-> FALSE, ret |-> None]

(***************************************************************************)
(* TTLCache.set as a function of the cache                                 *)
(***************************************************************************)
\* a set that never evicts
set_result_no_evict(c, k, v, ttl, t, cap) ==
    move_to_end(setitem(c, CacheEntry(k, v, ttl, t)), k)

\* a set that evicts whenever the cache is full, also for a stored key
set_result_evict_always(c, k, v, ttl, t, cap) ==
    LET c1 == IF Len(c) >= cap THEN popitem(c) ELSE c
    IN  move_to_end(setitem(c1, CacheEntry(k, v, ttl, t)), k)

set_result(c, k, v, ttl, t, cap) ==
    LET c1 == IF Len(c) >= cap /\ k \notin KeysOf(c) THEN popitem(c) ELSE c
    IN  move_to_end(setitem(c1, CacheEntry(k, v, ttl, t)), k)

\* ttl: Optional[int] = None selects default_ttl; given = FALSE stands for None
ttl_or_default(given, ttl) == IF ~given THEN default_ttl ELSE ttl

(***************************************************************************)
(* The parts of the state a specification does not use keep these values   *)
(***************************************************************************)
CacheIdle ==
    /\ now = 0
    /\ max_size = 1
    /\ cache = <<>>
    /\ hits = 0
    /\ misses = 0
    /\ acc = <<>>
    /\ setAt = <<>>
    /\ gets = 0
    /\ last = NoOp

KeyIdle ==
    /\ kfn = None
    /\ kstored = <<>>
    /\ kprobe = <<>>

LoaderIdle ==
    /\ files = <<>>
    /\ slot = <<>>
    /\ sinceEvent = <<>>
    /\ lret = <<>>
    /\ held = <<>>

ApiIdle ==
    /\ clock = 0
    /\ calls = <<>>
    /\ sent = <<>>

ViewIdle ==
    /\ data = <<>>
    /\ df = <<>>
    /\ out = <<>>
    /\ ApiIdle

(***************************************************************************)
(* TTLCache: initial state and operations                                  *)
(***************************************************************************)
InitCache ==
    /\ KeyIdle
    /\ LoaderIdle
    /\ ViewIdle
    /\ now = 0
    /\ max_size \in Capacities
    /\ cache = <<>>
    /\ hits = 0
    /\ misses = 0
    /\ acc = [k \in Keys |-> 0]
    /\ setAt = [k \in Keys |-> NoSet]
    /\ gets = 0
    /\ last = NoOp

\* history: ranks 1..n of the stored keys by their most recent access
Ranked(f, c) ==
    [k \in DOMAIN f |-> IF k \notin KeysOf(c) THEN 0
                    ELSE Cardinality({j \in KeysOf(c) : f[j] <= f[k]})]

Touched(f, k) == [f EXCEPT ![k] = Cardinality(DOMAIN f) + 1]

StoredOnly(f, c) == [k \in DOMAIN f |-> IF k \in KeysOf(c) THEN f[k] ELSE NoSet]

\* a get that does not count the lookup of an expired entry
stats_after_get_skip_expired(r, c, k, h, m) ==
    IF r.hit THEN [hits |-> h + 1, misses |-> m]
    ELSE IF k \in KeysOf(c) THEN [hits |-> h, misses |-> m]
    ELSE [hits |-> h, misses |-> m + 1]

stats_after_get(r, c, k, h, m) ==
    IF r.hit THEN [hits |-> h + 1, misses |-> m]
    ELSE [hits |-> h, misses |-> m + 1]

TTLCache_get(k) ==
    /\ gets < MaxGets
    /\ LET r == get_result(cache, k, now)
           s == stats_after_get(r, cache, k, hits, misses)
       IN  /\ cache' = r.cache
           /\ hits' = s.hits
           /\ misses' = s.misses
           /\ acc' = Ranked(IF r.hit THEN Touched(acc, k) ELSE acc, r.cache)
           /\ setAt' = StoredOnly(setAt, r.cache)
           /\ gets' = gets + 1
           /\ last' = [op |-> "get", key |-> k, ret |-> r.ret,
                       case |-> IF r.hit THEN "hit"
                                ELSE IF k \in KeysOf(cache) THEN "expired"
                                ELSE "absent",
                       evicted |-> KeysOf(cache) \ KeysOf(r.cache),
                       live |-> {e \in KeysOf(cache) \ KeysOf(r.cache) :
                                   ~is_expired(EntryOf(cache, e), now)}]
    /\ UNCHANGED <<now, max_size, keyVars, loaderVars, viewVars>>

TTLCache_set(k, v, given, ttl) ==
    /\ LET c == set_result(cache, k, v, ttl_or_default(given, ttl), now, max_size)
       IN  /\ cache' = c
           /\ acc' = Ranked(Touched(acc, k), c)
           /\ setAt' = StoredOnly([setAt EXCEPT ![k] =
                           [t |-> now, ttl |-> ttl_or_default(given, ttl), v |-> v]], c)
           /\ last' = [op |-> "set", key |-> k, ret |-> None,
                       case |-> IF k \in KeysOf(cache)
                                THEN (IF Len(cache) >= max_size
                                      THEN "stored_full" ELSE "stored")
                                ELSE (IF Len(cache) >= max_size
                                      THEN "new_full" ELSE "new"),
                       evicted |-> KeysOf(cache) \ KeysOf(c),
                       live |-> {e \in KeysOf(cache) \ KeysOf(c) :
                                   ~is_expired(EntryOf(cache, e), now)}]
    /\ UNCHANGED <<now, max_size, hits, misses, gets, keyVars, loaderVars, viewVars>>

\* a clear that keeps the counters
stats_after_clear_kept(h, m) == [hits |-> h, misses |-> m]

stats_after_clear(h, m) == [hits |-> 0, misses |-> 0]

TTLCache_clear ==
    /\ cache' = <<>>
    /\ hits' = stats_after_clear(hits, misses).hits
    /\ misses' = stats_after_clear(hits, misses).misses
    /\ acc' = [k \in DOMAIN acc |-> 0]
    /\ setAt' = [k \in DOMAIN setAt |-> NoSet]
    /\ gets' = 0
    /\ last' = [op |-> "clear", key |-> None, ret |-> None, case |-> None,
                evicted |-> KeysOf(cache),
                live |-> {e \in KeysOf(cache) : ~is_expired(EntryOf(cache, e), now)}]
    /\ UNCHANGED <<now, max_size, keyVars, loaderVars, viewVars>>

\* time passes between two calls
Tick ==
    /\ now < MaxTime
    /\ now' = now + 1
    /\ last' = [NoOp EXCEPT !.op = "tick"]
    /\ UNCHANGED <<max_size, cache, hits, misses, acc, setAt, gets, keyVars, loaderVars, viewVars>>

NextCache ==
    \/ \E k \in Keys : TTLCache_get(k)
    \/ \E k \in Keys, v \in Values, given \in BOOLEAN, ttl \in TTLs :
          TTLCache_set(k, v, given, ttl)
    \/ TTLCache_clear
    \/ Tick

SpecCache == InitCache /\ [][NextCache]_vars

(***************************************************************************)
(* TTLCache: properties                                                    *)
(***************************************************************************)
\* history view of an entry: the instant after which it is expired
ExpiresAt(k) == setAt[k].t + setAt[k].ttl

Expired(k) == now > ExpiresAt(k)

\* stored keys whose most recent access is the oldest
Oldest == {e \in KeysOf(cache) : \A j \in KeysOf(cache) : acc[e] <= acc[j]}

SetStep(k) == last'.op = "set" /\ last'.key = k

GetStep(k) == last'.op = "get" /\ last'.key = k

\* C1: a set of a key that is not stored, into a cache that holds max_size
\* entries, removes exactly one entry, the one whose most recent access (set
\* or successful get) is the oldest, keeps every other entry as it was and
\* stores the new key.
C1_LRUEviction ==
    [][\A k \in Keys :
          (SetStep(k) /\ k \notin KeysOf(cache) /\ Len(cache) = max_size)
          => \E e \in Oldest :
                /\ Cardinality(Oldest) = 1
                /\ KeysOf(cache') = (KeysOf(cache) \ {e}) \cup {k}
                /\ Len(cache') = max_size
                /\ \A j \in KeysOf(cache) \ {e} :
                      EntryOf(cache', j) = EntryOf(cache, j)]_vars

\* C1 witness: with max_size = 2 a set of a third key has just evicted one
\* of two stored keys
C1_Witness ==
    /\ max_size = 2
    /\ last.op = "set"
    /\ last.case = "new_full"
    /\ Cardinality(last.evicted) = 1
    /\ KeysOf(cache) = (Keys \ last.evicted)

\* C2: the number of stored entries, expired or not, never exceeds max_size.
C2_SizeBounded == Len(cache) <= max_size

\* C2 witness: the cache is full right after a set that had to make room
C2_Witness ==
    /\ Len(cache) = max_size
    /\ last.op = "set"
    /\ last.evicted # {}

\* C3: a set of a stored key evicts nothing, also at capacity: the stored
\* keys and the size are unchanged, the other entries are untouched, the
\* key's value and expiry are replaced and the key becomes the most recently
\* used one.
C3_SetStoredKey ==
    [][\A k \in Keys :
          (SetStep(k) /\ k \in KeysOf(cache))
          => /\ KeysOf(cache') = KeysOf(cache)
             /\ Len(cache') = Len(cache)
             /\ \A j \in KeysOf(cache) \ {k} :
                   EntryOf(cache', j) = EntryOf(cache, j)
             /\ EntryOf(cache', k).value = setAt'[k].v
             /\ EntryOf(cache', k).expiry = now + setAt'[k].ttl
             /\ cache'[Len(cache')].key = k
             /\ \A j \in KeysOf(cache') : acc'[j] <= acc'[k]]_vars

\* C3 witness: a stored key that was not the most recent one has been set
\* again in a full cache of two entries
C3_Witness ==
    /\ last.op = "set"
    /\ last.case = "stored_full"
    /\ Len(cache) = 2
    /\ cache[2].key = last.key
    /\ cache[1].expiry > cache[2].expiry

\* C4: get(k) of an entry stored at time t with ttl returns its value at
\* every time <= t + ttl and None at every later time.
C4_StrictExpiry ==
    [][\A k \in Keys :
          (GetStep(k) /\ k \in KeysOf(cache))
          => last'.ret = IF now <= ExpiresAt(k) THEN setAt[k].v ELSE None]_vars

\* C4 witness: a get returned a value exactly at the expiry instant t + ttl,
\* at least one tick after the set
C4_Witness ==
    /\ last.op = "get"
    /\ last.case = "hit"
    /\ last.ret # None
    /\ now = ExpiresAt(last.key)
    /\ setAt[last.key].ttl > 0

\* C5 as stated: an expired entry stays stored, as it is, over every step
\* that is not a get of its key, and that get deletes it and returns None.
C5_ExpiredStaysUntilGet ==
    [][\A k \in KeysOf(cache) :
          Expired(k)
          => IF GetStep(k)
             THEN k \notin KeysOf(cache') /\ last'.ret = None
             ELSE k \in KeysOf(cache') /\ EntryOf(cache', k) = EntryOf(cache, k)]_vars

\* C5 amended: an expired entry stays stored, as it is, over the passing of
\* time, gets of other keys and sets of other keys that do not evict it; a
\* get of its key deletes it and returns None; a set of its key replaces it
\* by a fresh entry; a set of a new key into a full cache evicts it when it
\* is the least recently used entry; clear removes it.
C5_ExpiredLifetime ==
    [][\A k \in KeysOf(cache) :
          Expired(k)
          => IF GetStep(k)
                THEN k \notin KeysOf(cache') /\ last'.ret = None
             ELSE IF SetStep(k)
                THEN k \in KeysOf(cache') /\ EntryOf(cache', k).expiry = now + setAt'[k].ttl
             ELSE IF last'.op = "clear"
                THEN cache' = <<>>
             ELSE IF last'.op = "set" /\ last'.key \notin KeysOf(cache)
                     /\ Len(cache) >= max_size /\ k \in Oldest
                THEN k \notin KeysOf(cache')
             ELSE k \in KeysOf(cache') /\ EntryOf(cache', k) = EntryOf(cache, k)]_vars

\* C5 witness: the lookup of an expired entry has just deleted it
C5_Witness ==
    /\ last.op = "get"
    /\ last.case = "expired"
    /\ last.evicted = {last.key}
    /\ last.ret = None

\* C8: every get increments exactly one of hits (the value of a live entry
\* was returned) and misses (None was returned for an absent or expired
\* key), set changes neither, clear resets both, and hits + misses is the
\* number of gets since the last clear.
C8_Stats ==
    [][/\ \A k \in Keys :
            GetStep(k)
            => IF k \in KeysOf(cache) /\ ~Expired(k)
               THEN hits' = hits + 1 /\ misses' = misses /\ last'.ret = setAt[k].v
               ELSE hits' = hits /\ misses' = misses + 1 /\ last'.ret = None
       /\ last'.op = "set" => hits' = hits /\ misses' = misses
       /\ last'.op = "clear" => hits' = 0 /\ misses' = 0
       /\ hits' + misses' = gets']_vars

\* C8 witness: the lookup of an expired entry was counted as a miss after
\* at least one hit
C8_Witness ==
    /\ last.op = "get"
    /\ last.case = "expired"
    /\ hits >= 1
    /\ misses >= 1
    /\ hits + misses = gets

(***************************************************************************)
(* Cache keys.  A Python str is a sequence of one-character strings, so    *)
(* that formatting, joining and replacing are computed as the code does.   *)
(***************************************************************************)
RECURSIVE Join(_, _)
\* sep.join(parts)
Join(parts, sep) ==
    IF Len(parts) = 0 THEN <<>>
    ELSE IF Len(parts) = 1 THEN parts[1]
    ELSE parts[1] \o sep \o Join(Tail(parts), sep)

\* str.replace(old, new) for a one-character old
replace(str, old, new) == [i \in DOMAIN str |-> IF str[i] = old THEN new ELSE str[i]]

\* repr of a str without quotes or backslashes: the text in single quotes
repr(str) == <<"'">> \o str \o <<"'">>

\* str(args) of a tuple of str: a one-element tuple has a trailing comma
str_tuple(args) ==
    IF Len(args) = 1 THEN <<"(">> \o repr(args[1]) \o <<",", ")">>
    ELSE <<"(">> \o Join([i \in DOMAIN args |-> repr(args[i])], <<",", " ">>) \o <<")">>

\* str(items) of a list of (name, value) pairs
str_items(items) ==
    <<"[">> \o Join([i \in DOMAIN items |->
                       <<"(">> \o repr(items[i][1]) \o <<",", " ">>
                               \o repr(items[i][2]) \o <<")">>],
                   <<",", " ">>) \o <<"]">>

\* the keyword names in their sort order
KwNames == << <<"x">>, <<"y">> >>

\* sorted(kwargs.items()): the names are distinct, so the order is by name
sorted(kwargs) ==
    LET names == SelectSeq(KwNames, LAMBDA n : \E i \in DOMAIN kwargs : kwargs[i][1] = n)
    IN  [i \in DOMAIN names |->
            kwargs[CHOOSE j \in DOMAIN kwargs : kwargs[j][1] = names[i]]]

\* cache_with_ttl.wrapper: f"{func.__name__}:{str(args)}:{str(sorted(kwargs.items()))}"
cache_with_ttl_key(name, args, kwargs) ==
    name \o <<":">> \o str_tuple(args) \o <<":">> \o str_items(sorted(kwargs))

\* memoize.wrapper: f"{str(args)}:{str(sorted(kwargs.items()))}"
memoize_key(args, kwargs) ==
    str_tuple(args) \o <<":">> \o str_items(sorted(kwargs))

\* hashlib.md5(...).hexdigest(), taken to be free of collisions
md5_hexdigest(str) == <<"md5", "[">> \o str \o <<"]">>

KeyLengthLimit == 200

\* "_".join of the class name, str(arg) of every positional argument and
\* f"{k}={v}" of every keyword argument in sorted order
key_str(cls, args, kwargs) ==
    Join(<<cls>> \o args
              \o [i \in DOMAIN sorted(kwargs) |->
                     sorted(kwargs)[i][1] \o <<"=">> \o sorted(kwargs)[i][2]],
         <<"_">>)

\* BaseAPIClient._get_cache_key
get_cache_key(cls, args, kwargs) ==
    LET ks == key_str(cls, args, kwargs)
    IN  IF Len(ks) > KeyLengthLimit
        THEN cls \o <<"_">> \o md5_hexdigest(ks)
        ELSE replace(replace(ks, " ", "_"), "/", "_")

\* with_cache.wrapper: self._get_cache_key(func.__name__, *args, **kwargs)
with_cache_key(cls, name, args, kwargs) == get_cache_key(cls, <<name>> \o args, kwargs)

\* the names the keys are built from
ClassName == <<"F", "l", "i", "g", "h", "t", "D", "a", "t", "a", "F", "e", "t", "c", "h", "e", "r">>
FuncName  == <<"f", "e", "t", "c", "h", "_", "p", "r", "i", "c", "e", "s">>

\* the key of a call under each of the three key functions
KeyOf(fn, args, kwargs) ==
    IF fn = "cache_with_ttl" THEN cache_with_ttl_key(FuncName, args, kwargs)
    ELSE IF fn = "memoize" THEN memoize_key(args, kwargs)
    ELSE with_cache_key(ClassName, FuncName, args, kwargs)

KeyFunctions == {"cache_with_ttl", "memoize", "with_cache"}

\* argument values: plain text, text with the join separator, text with a
\* replaced character
ArgStrings == {<<"a">>, <<"b">>, <<"a", "_", "b">>, <<"a", " ", "b">>}

LongArg == [i \in 1..(KeyLengthLimit + 1) |-> "a"]

ArgLists == UNION {[1..n -> ArgStrings] : n \in 0..MaxArgs}

\* keyword arguments in the order of the call
KwargLists ==
    { <<>>,
      << <<KwNames[1], <<"a">>>> >>,
      << <<KwNames[1], LongArg>> >>,
      << <<KwNames[1], <<"a">>>>, <<KwNames[2], <<"b">>>> >>,
      << <<KwNames[2], <<"b">>>>, <<KwNames[1], <<"a">>>> >> }

\* two calls have equal arguments: the same positional arguments in the same
\* order and the same keyword arguments in any order
SameArguments(c1, c2) ==
    /\ c1.args = c2.args
    /\ {c1.kwargs[i] : i \in DOMAIN c1.kwargs} = {c2.kwargs[i] : i \in DOMAIN c2.kwargs}

InitKey ==
    /\ CacheIdle
    /\ KeyIdle
    /\ LoaderIdle
    /\ ViewIdle

\* the first call of a cached function: a miss, the result is stored under its key
KeyStore(fn, args, kwargs) ==
    /\ kstored = <<>>
    /\ kfn' = fn
    /\ kstored' = <<[args |-> args, kwargs |-> kwargs, key |-> KeyOf(fn, args, kwargs)]>>
    /\ kprobe' = <<>>
    /\ UNCHANGED <<cacheVars, loaderVars, viewVars>>

\* a later call: it is served the stored result when its key is the stored key
KeyLookup(args, kwargs) ==
    /\ kstored # <<>>
    /\ kprobe = <<>>
    /\ kprobe' = <<[args |-> args, kwargs |-> kwargs,
                    key |-> KeyOf(kfn, args, kwargs),
                    hit |-> KeyOf(kfn, args, kwargs) = kstored[1].key]>>
    /\ UNCHANGED <<kfn, kstored, cacheVars, loaderVars, viewVars>>

\* wrapper.clear_cache / CacheManager.clear
KeyClear ==
    /\ kstored # <<>>
    /\ kfn' = None
    /\ kstored' = <<>>
    /\ kprobe' = <<>>
    /\ UNCHANGED <<cacheVars, loaderVars, viewVars>>

NextKey ==
    \/ \E fn \in KeyFunctions, args \in ArgLists, kwargs \in KwargLists :
          KeyStore(fn, args, kwargs)
    \/ \E args \in ArgLists, kwargs \in KwargLists : KeyLookup(args, kwargs)
    \/ KeyClear

SpecKey == InitKey /\ [][NextKey]_vars

Probed == kstored # <<>> /\ kprobe # <<>>

\* C7: a stored result is only returned to a call whose arguments equal
\* those of the call that stored it, under each of the three key functions.
C7_KeysSeparateArguments ==
    Probed /\ kprobe[1].hit => SameArguments(kprobe[1], kstored[1])

\* C7 holds of cache_with_ttl and memoize, whose keys quote every argument
C7_QuotedKeysSeparateArguments ==
    (Probed /\ kprobe[1].hit /\ kfn \in {"cache_with_ttl", "memoize"})
       => SameArguments(kprobe[1], kstored[1])

(***************************************************************************)
(* cache_with_ttl: a function wrapped with its own TTLCache                *)
(***************************************************************************)
\* the decorated function of the tests and the ttl it is decorated with
DecoName == <<"g", "e", "t", "_", "v", "a", "l", "u", "e">>
DecoTTL  == 1

\* the argument lists the wrapped function is called with
DecoArgs == {<< <<"a">> >>, << <<"b">> >>, << <<"a">>, <<"b">> >>}

DecoKey(args) == cache_with_ttl_key(DecoName, args, <<>>)

DecoKeys == {DecoKey(a) : a \in DecoArgs}

\* decorator: cache = TTLCache(max_size=max_size, default_ttl=ttl)
InitDeco ==
    /\ KeyIdle
    /\ LoaderIdle
    /\ ViewIdle
    /\ now = 0
    /\ max_size \in Capacities
    /\ cache = <<>>
    /\ hits = 0
    /\ misses = 0
    /\ acc = [k \in DecoKeys |-> 0]
    /\ setAt = [k \in DecoKeys |-> NoSet]
    /\ gets = 0
    /\ last = NoOp

\* wrapper(*args): look the key up; on a result that is not None return it;
\* otherwise call func, which returns res after d ticks, store and return res
wrapper(args, res, d) ==
    /\ gets < MaxGets
    /\ now + d <= MaxTime
    /\ LET k   == DecoKey(args)
           r   == get_result(cache, k, now)
           s   == stats_after_get(r, cache, k, hits, misses)
           c   == set_result(r.cache, k, res, DecoTTL, now + d, max_size)
           ran == r.ret = None
       IN  /\ hits' = s.hits
           /\ misses' = s.misses
           /\ gets' = gets + 1
           /\ cache' = IF ran THEN c ELSE r.cache
           /\ now' = IF ran THEN now + d ELSE now
           /\ acc' = IF ran THEN Ranked(Touched(acc, k), c)
                     ELSE Ranked(Touched(acc, k), r.cache)
           /\ setAt' = IF ran
                       THEN StoredOnly([setAt EXCEPT ![k] =
                               [t |-> now + d, ttl |-> DecoTTL, v |-> res]], c)
                       ELSE setAt
           /\ last' = [op |-> "call", key |-> k, args |-> args,
                       ret |-> IF ran THEN res ELSE r.ret,
                       case |-> IF r.hit THEN "hit"
                                ELSE IF k \in KeysOf(cache) THEN "expired"
                                ELSE "absent",
                       evicted |-> KeysOf(cache) \ KeysOf(cache'),
                       invoked |-> ran]
    /\ UNCHANGED <<max_size, keyVars, loaderVars, viewVars>>

NextDeco ==
    \/ \E args \in DecoArgs, res \in Values, d \in {0, 1} : wrapper(args, res, d)
    \/ TTLCache_clear
    \/ Tick

SpecDeco == InitDeco /\ [][NextDeco]_vars

\* C6: while the entry of an argument list is stored and unexpired, a call
\* with these arguments does not invoke the function and returns the stored
\* result, whatever that result is; otherwise the call invokes the function.
C6_InvokedOncePerArguments ==
    [][\A a \in DecoArgs :
          (last'.op = "call" /\ last'.args = a)
          => IF DecoKey(a) \in KeysOf(cache) /\ ~Expired(DecoKey(a))
             THEN ~last'.invoked /\ last'.ret = setAt[DecoKey(a)].v
             ELSE last'.invoked]_vars

(***************************************************************************)
(* DataLoader: the four cached tables and their backing files              *)
(***************************************************************************)
Datasets == {"destinations", "costs", "flights", "weather"}

\* the datasets whose load method takes a data_source argument
Tagged == {"costs", "flights", "weather"}

\* the rows of a backing file: two sources, the first one twice
FileRows ==
    << [destination_id |-> 1, data_source |-> "demo1"],
       [destination_id |-> 2, data_source |-> "live"],
       [destination_id |-> 3, data_source |-> "demo1"] >>

\* a backing file is absent, cannot be parsed by read_csv, parses but has a
\* column that cannot be coerced to its type, or is well formed
FileStatus == {"missing", "unparseable", "uncoercible", "ok"}

\* the data_source argument: None, the empty string, a tag in use, another tag in use
TagArgs == {None, "", "demo1", "live"}

InitLoader ==
    /\ CacheIdle
    /\ KeyIdle
    /\ ViewIdle
    /\ files \in [Datasets -> FileStatus]
    /\ slot = [d \in Datasets |-> <<>>]
    /\ sinceEvent = [d \in Datasets |-> 0]
    /\ lret = <<>>
    /\ held = <<>>

\* a filter applied whenever an argument is given, the empty string included
has_data_source_not_none(tag) == tag # None

\* "if data_source:" is the truth value of the argument
has_data_source(tag) == tag # None /\ tag # ""

\* df[df["data_source"] == data_source]
filter_data_source(rows, tag) == SelectSeq(rows, LAMBDA r : r.data_source = tag)

\* the filters of a load method on a copy of the cached table
filtered(rows, tag) ==
    IF has_data_source(tag) THEN filter_data_source(rows, tag) ELSE rows

\* a loader that ignores reload once a table is cached
goes_to_file_ignore_reload(s, reload) == s = <<>>

\* "if self.<dataset>_df is None or reload:"
goes_to_file(s, reload) == s = <<>> \/ reload

\* the outcome of a load method: the new slot, whether read_csv returned a
\* table, the exception raised (None: none) and the rows returned.  The slot
\* is assigned the parsed table before its columns are coerced.
load_result(s, file, tag, reload) ==
    IF goes_to_file(s, reload)
    THEN IF file = "missing"
         THEN [slot |-> s, read |-> FALSE, raised |-> "FileNotFoundError", rows |-> <<>>]
         ELSE IF file = "unparseable"
         THEN [slot |-> s, read |-> FALSE, raised |-> "ParserError", rows |-> <<>>]
         ELSE IF file = "uncoercible"
         THEN [slot |-> <<[rows |-> FileRows, typed |-> FALSE]>>, read |-> TRUE,
               raised |-> "ValueError", rows |-> <<>>]
         ELSE [slot |-> <<[rows |-> FileRows, typed |-> TRUE]>>, read |-> TRUE,
               raised |-> None, rows |-> filtered(FileRows, tag)]
    ELSE [slot |-> s, read |-> FALSE, raised |-> None, rows |-> filtered(s[1].rows, tag)]

\* a load that hands out the cached table itself
copy_same_object(t) == [rows |-> t.rows, shares |-> TRUE]

\* DataFrame.copy(): a new table with the same rows, sharing nothing
copy(t) == [rows |-> t.rows, shares |-> FALSE]

\* whether the returned table is the cached object: a filter builds a new table
returned_shares(t, tag) == copy(t).shares /\ ~has_data_source(tag)

\* load_destinations, load_costs, load_flights and load_weather; the date,
\* search-date and forecast filters are left at their defaults
load(d, tag, reload) ==
    /\ d \notin Tagged => tag = None
    /\ LET r == load_result(slot[d], files[d], tag, reload)
       IN  /\ slot' = [slot EXCEPT ![d] = r.slot]
           /\ held' = IF r.raised = None
                      THEN <<[ds |-> d, tag |-> tag, orig |-> r.rows, rows |-> r.rows,
                              shares |-> returned_shares(r.slot[1], tag),
                              again |-> /\ held # <<>>
                                        /\ held[1].ds = d
                                        /\ held[1].tag = tag
                                        /\ held[1].rows # held[1].orig
                                        /\ ~reload]>>
                      ELSE <<>>
           /\ sinceEvent' = [sinceEvent EXCEPT ![d] =
                                IF reload THEN 0
                                ELSE IF r.read THEN @ + 1 ELSE @]
           /\ lret' = <<[op |-> "load", ds |-> d, tag |-> tag, reload |-> reload,
                         cached |-> slot[d] # <<>>, read |-> r.read, raised |-> r.raised, rows |-> r.rows]>>
    /\ UNCHANGED <<files, cacheVars, keyVars, viewVars>>

\* a clear_cache that forgets to drop the destinations table
cleared_slots_keep_destinations(s) ==
    [d \in Datasets |-> IF d = "destinations" THEN s[d] ELSE <<>>]

cleared_slots(s) == [d \in Datasets |-> <<>>]

clear_cache ==
    /\ slot' = cleared_slots(slot)
    /\ sinceEvent' = [d \in Datasets |-> 0]
    /\ lret' = <<[op |-> "clear_cache", ds |-> None, tag |-> None, reload |-> FALSE,
                  cached |-> FALSE, read |-> FALSE, raised |-> None, rows |-> <<>>]>>
    /\ UNCHANGED <<files, held, cacheVars, keyVars, viewVars>>

\* the rows left after the caller drops the first row of a table in place
dropped_first(rows) == Tail(rows)

\* the caller changes the table a load returned, once: df.drop(index, inplace=True).
\* The cached table changes with it exactly when both are one object.
mutate_returned ==
    /\ held # <<>>
    /\ held[1].rows # <<>>
    /\ held[1].rows = held[1].orig
    /\ held' = <<[held[1] EXCEPT !.rows = dropped_first(@)]>>
    /\ slot' = IF held[1].shares
               THEN [slot EXCEPT ![held[1].ds] = <<[@[1] EXCEPT !.rows = dropped_first(@)]>>]
               ELSE slot
    /\ lret' = <<[op |-> "mutate", ds |-> held[1].ds, tag |-> held[1].tag, reload |-> FALSE,
                  cached |-> TRUE, read |-> FALSE, raised |-> None, rows |-> <<>>]>>
    /\ UNCHANGED <<files, sinceEvent, cacheVars, keyVars, viewVars>>

NextLoader ==
    \/ \E d \in Datasets, tag \in TagArgs, reload \in BOOLEAN : load(d, tag, reload)
    \/ clear_cache

SpecLoader == InitLoader /\ [][NextLoader]_vars

\* a caller that also changes the tables it is given; every backing file exists
CallerFileStatus == {"uncoercible", "ok"}

InitCaller ==
    /\ InitLoader
    /\ files \in [Datasets -> CallerFileStatus]

NextCaller ==
    \/ \E d \in Datasets, tag \in TagArgs, reload \in BOOLEAN : load(d, tag, reload)
    \/ clear_cache
    \/ mutate_returned

SpecCaller == InitCaller /\ [][NextCaller]_vars

LoadStep(d) == lret' # <<>> /\ lret'[1].op = "load" /\ lret'[1].ds = d

C10_TagFilterExact ==
    [][\A d \in Tagged :
          (LoadStep(d) /\ lret'[1].tag # None /\ lret'[1].raised = None)
          => /\ slot'[d] # <<>>
             /\ lret'[1].rows = filter_data_source(slot'[d][1].rows, lret'[1].tag)
             /\ (slot[d] # <<>> /\ ~lret'[1].reload)
                   => ~lret'[1].read /\ slot'[d] = slot[d]]_vars

\* C11: a load of a dataset with the arguments of the load before it, and
\* without reload, returns the rows that load returned, whatever the
\* caller did to the table it was given; changing a returned table leaves
\* every cached table as it was.
C11_ReturnedTableIndependent ==
    [][/\ \A d \in Datasets :
            (/\ LoadStep(d)
             /\ lret'[1].raised = None
             /\ ~lret'[1].reload
             /\ held # <<>>
             /\ held[1].ds = d
             /\ held[1].tag = lret'[1].tag)
            => lret'[1].rows = held[1].orig
       /\ (lret' # <<>> /\ lret'[1].op = "mutate") => slot' = slot]_vars

\* C11 witness: the caller dropped a row of an unfiltered table, and the
\* next load with the same arguments served all three rows from the cache
C11_Witness ==
    /\ held # <<>>
    /\ held[1].again
    /\ held[1].tag = None
    /\ Len(held[1].rows) = 3
    /\ lret # <<>>
    /\ lret[1].op = "load"
    /\ lret[1].cached
    /\ ~lret[1].read

(***************************************************************************)
(* load_weather(forecast_only): the forecast_flag column                   *)
(***************************************************************************)
otherThanView == <<cacheVars, keyVars, loaderVars, apiVars>>

WeatherIds == {1, 2, 3}

\* the spellings of a flag in weather_data.csv
FlagTokens == {"TRUE", "FALSE", "True", "False"}

\* a cell of a table column: a Python str or a Python bool
StrCell(s) == <<"str", s>>

BoolCell(b) == <<"bool", IF b THEN "True" ELSE "False">>

\* the flag cells of a table built in memory: strings mixed with booleans
FlagCells == {StrCell("TRUE"), StrCell("FALSE"), BoolCell(TRUE), BoolCell(FALSE)}

\* what a flag cell denotes
denotes_true(cell) == cell[2] \in {"TRUE", "True"}

\* read_csv turns a column into booleans when every token of it is one of
\* the parser's true and false values, and leaves it a column of strings
\* otherwise
true_values == {"True", "TRUE", "true"}

false_values == {"False", "FALSE", "false"}

read_csv_column(tokens) ==
    IF \A i \in DOMAIN tokens : tokens[i] \in true_values \cup false_values
    THEN [i \in DOMAIN tokens |-> BoolCell(tokens[i] \in true_values)]
    ELSE [i \in DOMAIN tokens |-> StrCell(tokens[i])]

\* Series.astype(bool): bool(x) of each cell; a string is true unless empty
astype_bool(col) ==
    [i \in DOMAIN col |->
        IF col[i][1] = "bool" THEN col[i] ELSE BoolCell(col[i][2] # "")]

\* com.is_bool_indexer: a column selects rows only if all its cells are booleans
is_bool_indexer(col) == \A i \in DOMAIN col : col[i][1] = "bool"

\* df[df["forecast_flag"]]: the rows whose cell is True; a column that is not
\* boolean is looked up as a list of column labels, which raises KeyError
mask_result(col) ==
    IF is_bool_indexer(col)
    THEN [raised |-> None,
          rows |-> SelectSeq([i \in DOMAIN col |-> [weather_id |-> i, forecast_flag |-> col[i]]],
                             LAMBDA r : r.forecast_flag = BoolCell(TRUE))]
    ELSE [raised |-> "KeyError", rows |-> <<>>]

InitForecast ==
    /\ CacheIdle
    /\ KeyIdle
    /\ LoaderIdle
    /\ ApiIdle
    /\ data \in [WeatherIds -> FlagTokens]
    /\ df = <<>>
    /\ out = <<>>

\* load_weather with data_source and date_range at their defaults, on an
\* existing, well-formed file
load_weather(forecast_only, reload) ==
    /\ df' = IF df = <<>> \/ reload THEN <<astype_bool(read_csv_column(data))>> ELSE df
    /\ LET r == IF forecast_only
                THEN mask_result(df'[1])
                ELSE [raised |-> None,
                      rows |-> [i \in DOMAIN df'[1] |-> [weather_id |-> i, forecast_flag |-> df'[1][i]]]]
       IN  out' = <<[op |-> "load_weather", forecast_only |-> forecast_only,
                     cached |-> df # <<>> /\ ~reload, raised |-> r.raised, rows |-> r.rows]>>
    /\ UNCHANGED <<data, otherThanView>>

\* loader.weather_df = weather_data: a table built in memory is put in the slot
set_weather_df(col) ==
    /\ df' = <<col>>
    /\ out' = <<[op |-> "set_weather_df", forecast_only |-> FALSE, cached |-> FALSE,
                 raised |-> None, rows |-> <<>>]>>
    /\ UNCHANGED <<data, otherThanView>>

NextForecast ==
    \/ \E forecast_only \in BOOLEAN, reload \in BOOLEAN : load_weather(forecast_only, reload)
    \/ \E col \in [WeatherIds -> FlagCells] : set_weather_df(col)

SpecForecast == InitForecast /\ [][NextForecast]_vars

ForecastStep ==
    out' # <<>> /\ out'[1].op = "load_weather" /\ out'[1].forecast_only

\* C12: load_weather(forecast_only=True) does not raise and returns exactly
\* the rows of the table whose flag denotes true, each with the boolean True
\* as its flag, whether the table was parsed by this call or was already cached.
C12_ForecastOnlyExact ==
    [][ForecastStep
       => /\ out'[1].raised = None
          /\ {r.weather_id : r \in {out'[1].rows[i] : i \in DOMAIN out'[1].rows}}
                = {i \in DOMAIN df'[1] : denotes_true(df'[1][i])}
          /\ \A i \in DOMAIN out'[1].rows : out'[1].rows[i].forecast_flag = BoolCell(TRUE)]_vars

\* with a table parsed from the file by load_weather itself the filter is exact
C12_ForecastOnlyOnParsedTable ==
    [][(ForecastStep /\ is_bool_indexer(df'[1]))
       => /\ out'[1].raised = None
          /\ {r.weather_id : r \in {out'[1].rows[i] : i \in DOMAIN out'[1].rows}}
                = {i \in DOMAIN df'[1] : denotes_true(df'[1][i])}]_vars

(***************************************************************************)
(* Date-range filters: load_flights, load_weather and the flight charts    *)
(***************************************************************************)
\* the datasets whose load method takes a date range
Dated == {"flights", "weather"}

RowIds == {1, 2, 3}

\* dates as they are written in the files and passed as arguments
DateStrings == {"2025-10-05", "2025-10-06", "2025-10-07"}

\* pd.to_datetime of a date string: the day, here counted within October 2025
to_datetime(s) ==
    CASE s = "2025-10-05" -> 5
      [] s = "2025-10-06" -> 6
      [] s = "2025-10-07" -> 7

\* a bound of a range: <<>> for None, <<s>> for a date string
Bounds == {<<>>} \cup {<<s>> : s \in DateStrings}

\* a range argument: <<>> for None, otherwise the tuple (start, end)
Ranges == {<<>>} \cup (Bounds \X Bounds)

\* comparing a datetime column with None raises TypeError or, depending on
\* the pandas version, compares false for every row
NoneComparison == {"TypeError", "all_false"}

\* the rows of a parsed table
rows_of(col) == [i \in DOMAIN col |-> [id |-> i, date |-> col[i]]]

\* a range that leaves out the rows dated exactly at the end
in_range_end_excluded(d, start_date, end_date) == d >= start_date /\ d < end_date

\* (df[col] >= start_date) & (df[col] <= end_date)
in_range(d, start_date, end_date) == d >= start_date /\ d <= end_date

\* "if date_range:" and the three lines under it
range_result(col, range, none_cmp) ==
    IF range = <<>>
    THEN [raised |-> None, rows |-> rows_of(col)]
    ELSE IF range[1] = <<>> \/ range[2] = <<>>
    THEN IF none_cmp = "TypeError"
         THEN [raised |-> "TypeError", rows |-> <<>>]
         ELSE [raised |-> None, rows |-> <<>>]
    ELSE [raised |-> None,
          rows |-> SelectSeq(rows_of(col),
                             LAMBDA r : in_range(r.date, to_datetime(range[1][1]),
                                                 to_datetime(range[2][1])))]

InitRange ==
    /\ CacheIdle
    /\ KeyIdle
    /\ LoaderIdle
    /\ ApiIdle
    /\ data \in [RowIds -> DateStrings]
    /\ df = [d \in Dated |-> <<>>]
    /\ out = <<>>

\* the table as load_flights and load_weather parse it from the file
parsed(csv) == [i \in DOMAIN csv |-> to_datetime(csv[i])]

\* load_flights(departure_date_range=...) and load_weather(date_range=...),
\* the other filters at their defaults, on an existing, well-formed file
load_dated(d, range, reload, none_cmp) ==
    /\ df' = [df EXCEPT ![d] = IF @ = <<>> \/ reload THEN <<parsed(data)>> ELSE @]
    /\ LET r == range_result(df'[d][1], range, none_cmp)
       IN  out' = <<[op |-> "load", ds |-> d, range |-> range,
                     raised |-> r.raised, rows |-> r.rows]>>
    /\ UNCHANGED <<data, otherThanView>>

\* the date filter of update_flight_prices_chart and update_flight_duration_scatter
chart_date_filter(col, start_date, end_date) ==
    IF start_date # <<>> /\ end_date # <<>>
    THEN SelectSeq(rows_of(col),
                   LAMBDA r : in_range(r.date, to_datetime(start_date[1]), to_datetime(end_date[1])))
    ELSE rows_of(col)

\* update_flight_prices_chart on the flights table loaded at registration,
\* with filter_data naming no destination, no duration limit and direct_only
\* off; every flight belongs to a listed destination
update_flight_prices_chart(start_date, end_date) ==
    /\ out' = <<[op |-> "update_flight_prices_chart", ds |-> "flights",
                 range |-> <<start_date, end_date>>, raised |-> None,
                 rows |-> chart_date_filter(parsed(data), start_date, end_date)]>>
    /\ UNCHANGED <<data, df, otherThanView>>

NextRange ==
    \/ \E d \in Dated, range \in Ranges, reload \in BOOLEAN, none_cmp \in NoneComparison :
          load_dated(d, range, reload, none_cmp)
    \/ \E start_date \in Bounds, end_date \in Bounds :
          update_flight_prices_chart(start_date, end_date)

SpecRange == InitRange /\ [][NextRange]_vars

IdsOf(rows) == {rows[i].id : i \in DOMAIN rows}

\* C13: a load with a range (d1, d2) of two dates returns exactly the rows
\* whose date d satisfies d1 <= d <= d2, the rows dated d1 or d2 included.
C13_RangeInclusive ==
    [][(/\ out' # <<>>
        /\ out'[1].op = "load"
        /\ out'[1].range # <<>>
        /\ out'[1].range[1] # <<>>
        /\ out'[1].range[2] # <<>>)
       => /\ out'[1].raised = None
          /\ IdsOf(out'[1].rows)
                = {i \in RowIds : /\ to_datetime(out'[1].range[1][1]) <= to_datetime(data[i])
                                  /\ to_datetime(data[i]) <= to_datetime(out'[1].range[2][1])}]_vars

\* C13 witness: a load over (5 Oct, 6 Oct) returned a row dated 5 Oct and a
\* row dated 6 Oct and left out a row dated 7 Oct
C13_Witness ==
    /\ out # <<>>
    /\ out[1].op = "load"
    /\ out[1].range = << <<"2025-10-05">>, <<"2025-10-06">> >>
    /\ \E i, j \in IdsOf(out[1].rows) : data[i] = "2025-10-05" /\ data[j] = "2025-10-06"
    /\ \E k \in RowIds \ IdsOf(out[1].rows) : data[k] = "2025-10-07"

\* C14: a date filter given one bound only, in a load or in the flight
\* chart, keeps exactly the rows on the given side of that bound.
C14_OneBoundKeepsItsSide ==
    [][(/\ out' # <<>>
        /\ out'[1].range # <<>>
        /\ (out'[1].range[1] = <<>>) # (out'[1].range[2] = <<>>))
       => /\ out'[1].raised = None
          /\ IdsOf(out'[1].rows)
                = {i \in RowIds :
                      IF out'[1].range[1] # <<>>
                      THEN to_datetime(data[i]) >= to_datetime(out'[1].range[1][1])
                      ELSE to_datetime(data[i]) <= to_datetime(out'[1].range[2][1])}]_vars

(***************************************************************************)
(* Chart callbacks: the destination selection                              *)
(***************************************************************************)
\* destination_id -> name of the destinations that can be listed
name_of == [i \in {1, 2} |-> IF i = 1 THEN "Alicante" ELSE "Malaga"]

\* the destinations table: any part of the two destinations
DestinationTables == SUBSET DOMAIN name_of

\* the destination_id of a weather, cost or flight row; 3 is listed nowhere
RowDestinations == {1, 2, 3}

\* the charts whose callback filters a table by destination
Charts == {"temperature", "rainfall", "cost_comparison", "cost_breakdown",
           "flight_prices", "flight_duration_scatter"}

\* filter_data["destinations"]: lists of names, as sets
Selections == SUBSET {name_of[i] : i \in DOMAIN name_of}

\* the store content: <<>> for None, else a dict whose other filters are unset
FilterData == {<<>>} \cup {<<[destinations |-> sel]>> : sel \in Selections}

InitChart ==
    /\ CacheIdle
    /\ KeyIdle
    /\ LoaderIdle
    /\ ApiIdle
    /\ data \in [destinations : DestinationTables, rows : [RowIds -> RowDestinations]]
    /\ df = <<>>
    /\ out = <<>>

\* the rows of the table a chart is drawn from
chart_rows(col) == [i \in DOMAIN col |-> [id |-> i, destination_id |-> col[i]]]

\* destinations_df["name"].tolist()
names(dests) == {name_of[i] : i \in dests}

\* create_<chart>_component: "if filtered_dest:" and the isin filter under it;
\* None and the empty list both skip the filter
component_rows(rows, dests, filtered_dest) ==
    IF filtered_dest # {}
    THEN LET dest_ids == {i \in dests : name_of[i] \in filtered_dest}
         IN  SelectSeq(rows, LAMBDA r : r.destination_id \in dest_ids)
    ELSE rows

\* update_<chart>_chart: the rows handed to the chart builder
callback_rows(rows, dests, filter_data) ==
    IF filter_data = <<>>
    THEN component_rows(rows, dests, {})
    ELSE LET sel == filter_data[1].destinations
             selected_dest == IF sel = {} THEN names(dests) ELSE sel
         IN  component_rows(rows, dests, selected_dest)

\* the six chart callbacks, with no date, budget, temperature, duration or
\* direct-flight filter set
update_chart(chart, filter_data) ==
    /\ out' = <<[op |-> "update_chart", chart |-> chart, filter_data |-> filter_data,
                 before |-> IdsOf(chart_rows(data.rows)),
                 rows |-> IdsOf(callback_rows(chart_rows(data.rows), data.destinations,
                                              filter_data))]>>
    /\ UNCHANGED <<data, df, otherThanView>>

\* update_destinations_map: the destinations drawn on the map
map_rows(dests, filter_data) ==
    IF filter_data = <<>> \/ filter_data[1].destinations = {}
    THEN dests
    ELSE {i \in dests : name_of[i] \in filter_data[1].destinations}

update_destinations_map(filter_data) ==
    /\ out' = <<[op |-> "update_chart", chart |-> "destinations_map",
                 filter_data |-> filter_data, before |-> data.destinations,
                 rows |-> map_rows(data.destinations, filter_data)]>>
    /\ UNCHANGED <<data, df, otherThanView>>

NextChart ==
    \/ \E chart \in Charts, filter_data \in FilterData : update_chart(chart, filter_data)
    \/ \E filter_data \in FilterData : update_destinations_map(filter_data)

SpecChart == InitChart /\ [][NextChart]_vars

NoSelection(filter_data) == filter_data = <<>> \/ filter_data[1].destinations = {}

\* C15: a chart callback given no destination selection, absent or empty,
\* draws from every row of its table: as many rows as before the membership
\* filter, none dropped.
C15_EmptySelectionIsNoFilter ==
    [][(out' # <<>> /\ NoSelection(out'[1].filter_data))
       => out'[1].rows = out'[1].before]_vars

\* with every row belonging to a listed destination no row is dropped
C15_EmptySelectionKeepsListedRows ==
    [][(out' # <<>> /\ NoSelection(out'[1].filter_data))
       => out'[1].rows
            = {i \in out'[1].before :
                  out'[1].chart # "destinations_map"
                  => (out'[1].filter_data = <<>> \/ data.rows[i] \in data.destinations
                         \/ data.destinations = {})}]_vars

(***************************************************************************)
(* load_all and get_aggregates: collapsing costs, merging, aggregating     *)
(***************************************************************************)
\* A cell that may be missing is <<>> (NaN, NaT) or <<v>>.  A cost record is
\* [destination_id, data_date, monthly_living_cost, rent], a flight is
\* [flight_id, destination_id, departure_date, price], a weather record is
\* [weather_id, destination_id, date, temp_avg_c].
CostFields == {"data_date", "monthly_living_cost", "rent"}

\* position of a date in an ascending sort: missing dates go last
date_before_or_equal(a, b) == b = <<>> \/ (a # <<>> /\ a[1] <= b[1])

RECURSIVE insert_by_date(_, _)
\* r put behind every record of the ordered sequence that does not sort after it
insert_by_date(ordered, r) ==
    IF ordered = <<>> THEN <<r>>
    ELSE IF date_before_or_equal(ordered[Len(ordered)].data_date, r.data_date)
    THEN Append(ordered, r)
    ELSE Append(insert_by_date(SubSeq(ordered, 1, Len(ordered) - 1), r), ordered[Len(ordered)])

RECURSIVE sort_values(_)
\* costs.sort_values("data_date"): ascending, missing dates last, ties in file order
sort_values(costs) ==
    IF costs = <<>> THEN <<>>
    ELSE insert_by_date(sort_values(SubSeq(costs, 1, Len(costs) - 1)), costs[Len(costs)])

RECURSIVE last_cell(_, _)
\* GroupBy.last() of one column: the last cell of the group that is not missing
last_cell(group, field) ==
    IF group = <<>> THEN <<>>
    ELSE IF group[Len(group)][field] # <<>> THEN group[Len(group)][field]
    ELSE last_cell(SubSeq(group, 1, Len(group) - 1), field)

DestinationsIn(table) == {table[i].destination_id : i \in DOMAIN table}

\* sort_values("data_date").groupby("destination_id").last(): one record per
\* destination of the cost table
groupby_last(costs) ==
    LET ordered == sort_values(costs)
    IN  {[destination_id |-> d,
          data_date |-> last_cell(SelectSeq(ordered, LAMBDA r : r.destination_id = d), "data_date"),
          monthly_living_cost |-> last_cell(SelectSeq(ordered, LAMBDA r : r.destination_id = d),
                                            "monthly_living_cost"),
          rent |-> last_cell(SelectSeq(ordered, LAMBDA r : r.destination_id = d), "rent")]
         : d \in DestinationsIn(costs)}

RowsOf(table) == {table[i] : i \in DOMAIN table}

\* costs left as they are: every cost record is a row to merge
costs_not_collapsed(costs) == RowsOf(costs)

\* "if not costs.empty:" and the collapse under it
costs_latest(costs) == IF costs # <<>> THEN groupby_last(costs) ELSE {}

\* a row of the merged table: the destination id, whether the destination
\* columns are filled, and the cost, flight and weather record joined to it
MergedRow(d, listed, cost, flight, weather) ==
    [destination_id |-> d, listed |-> listed, cost |-> cost, flight |-> flight,
     weather |-> weather]

on_destination_id(l, r) == l.destination_id = r.destination_id

\* on=["destination_id", "departure_date"], the weather date renamed
on_destination_id_and_date(l, r) ==
    /\ l.destination_id = r.destination_id
    /\ l.flight # <<>>
    /\ l.flight[1].departure_date = r.date

\* whether two rows agree on the merge keys
matches(on, l, r) ==
    IF on = "destination_id" THEN on_destination_id(l, r)
    ELSE on_destination_id_and_date(l, r)

\* DataFrame.merge(right, how=how): the pairs that match; for left and outer
\* the left rows without a match; for outer the right rows without a match
merge(left, right, how, field, on) ==
    LET matched == {[l EXCEPT ![field] = <<r>>] :
                       <<l, r>> \in {p \in left \X right : matches(on, p[1], p[2])}}
        left_only == {l \in left : \A r \in right : ~matches(on, l, r)}
        right_only == {[MergedRow(r.destination_id, FALSE, <<>>, <<>>, <<>>)
                           EXCEPT ![field] = <<r>>] :
                          r \in {x \in right : \A l \in left : ~matches(on, l, x)}}
    IN  matched
        \cup (IF how \in {"left", "outer"} THEN left_only ELSE {})
        \cup (IF how = "outer" THEN right_only ELSE {})

\* "if not flights.empty:" and the merge under it
merge_flights(result, flights, how) ==
    IF flights # <<>>
    THEN merge(result, RowsOf(flights), how, "flight", "destination_id")
    ELSE result

\* "if not weather.empty:" and the merge under it: on the departure date when
\* the flights were merged, on the destination alone otherwise
merge_weather(result, flights, weather, how) ==
    IF weather # <<>>
    THEN IF flights # <<>>
         THEN merge(result, RowsOf(weather), how, "weather", "destination_id, departure_date")
         ELSE merge(result, RowsOf(weather), how, "weather", "destination_id")
    ELSE result

\* load_all on the four loaded tables
load_all_result(destinations, costs, flights, weather, merge_strategy) ==
    LET base == {MergedRow(d, TRUE, <<>>, <<>>, <<>>) : d \in destinations}
        with_costs == merge(base, costs_latest(costs), merge_strategy, "cost", "destination_id")
        with_flights == merge_flights(with_costs, flights, merge_strategy)
    IN  merge_weather(with_flights, flights, weather, merge_strategy)

RECURSIVE sum_of(_, _)
sum_of(table, field) ==
    IF table = <<>> THEN 0 ELSE table[1][field] + sum_of(Tail(table), field)

\* mean(...).round(2), in hundredths; the groups here have at most three rows,
\* so no mean lies halfway between two hundredths
mean_round_2(table, field) ==
    (200 * sum_of(table, field) + Len(table)) \div (2 * Len(table))

max_of(table, field) ==
    CHOOSE m \in {table[i][field] : i \in DOMAIN table} :
        \A i \in DOMAIN table : table[i][field] <= m

min_of(table, field) ==
    CHOOSE m \in {table[i][field] : i \in DOMAIN table} :
        \A i \in DOMAIN table : table[i][field] >= m

\* flights.groupby("destination_id").agg({"price": ["mean", "min", "max", "count"]})
flight_agg(flights) ==
    {LET group == SelectSeq(flights, LAMBDA r : r.destination_id = d)
     IN  [destination_id |-> d,
          avg_flight_price |-> mean_round_2(group, "price"),
          min_flight_price |-> min_of(group, "price"),
          max_flight_price |-> max_of(group, "price"),
          flight_count |-> Len(group)]
     : d \in DestinationsIn(flights)}

\* weather.groupby("destination_id").agg(...): the mean and the maximum stand
\* for the six aggregates
weather_agg(weather) ==
    {LET group == SelectSeq(weather, LAMBDA r : r.destination_id = d)
     IN  [destination_id |-> d,
          avg_temp |-> mean_round_2(group, "temp_avg_c"),
          max_temp |-> max_of(group, "temp_avg_c")]
     : d \in DestinationsIn(weather)}

\* cost_latest[["monthly_living_cost"]], keyed by destination_id
cost_latest_column(costs) ==
    {[destination_id |-> c.destination_id, monthly_living_cost |-> c.monthly_living_cost]
     : c \in groupby_last(costs)}

CostColumns == {"monthly_living_cost"}

FlightColumns == {"avg_flight_price", "min_flight_price", "max_flight_price", "flight_count"}

WeatherColumns == {"avg_temp", "max_temp"}

\* flight aggregates merged whatever the flights table holds
has_flight_columns_always(flights) == TRUE

\* "if not flights.empty:" of get_aggregates
has_flight_columns(flights) == flights # <<>>

\* get_aggregates on the four loaded tables: the columns and the rows of the result
get_aggregates_result(destinations, costs, flights, weather) ==
    LET base == {MergedRow(d, TRUE, <<>>, <<>>, <<>>) : d \in destinations}
        with_costs == IF costs # <<>>
                      THEN merge(base, cost_latest_column(costs), "left", "cost", "destination_id")
                      ELSE base
        with_flights == IF has_flight_columns(flights)
                        THEN merge(with_costs, flight_agg(flights), "left", "flight", "destination_id")
                        ELSE with_costs
        with_weather == IF weather # <<>>
                        THEN merge(with_flights, weather_agg(weather), "left", "weather", "destination_id")
                        ELSE with_flights
    IN  [columns |-> {"destination_id", "name", "country"}
                       \cup (IF costs # <<>> THEN CostColumns ELSE {})
                       \cup (IF has_flight_columns(flights) THEN FlightColumns ELSE {})
                       \cup (IF weather # <<>> THEN WeatherColumns ELSE {}),
         rows |-> with_weather]

MergeStrategies == {"left", "inner", "outer"}

\* load_all(merge_strategy=...) with every backing file present and well formed
load_all(merge_strategy) ==
    /\ out' = <<[op |-> "load_all", merge_strategy |-> merge_strategy, columns |-> {},
                 rows |-> load_all_result(data.destinations, data.costs, data.flights,
                                          data.weather, merge_strategy)]>>
    /\ UNCHANGED <<data, df, otherThanView>>

\* get_aggregates() with every backing file present and well formed
get_aggregates ==
    /\ LET r == get_aggregates_result(data.destinations, data.costs, data.flights, data.weather)
       IN  out' = <<[op |-> "get_aggregates", merge_strategy |-> "left",
                     columns |-> r.columns, rows |-> r.rows]>>
    /\ UNCHANGED <<data, df, otherThanView>>

NextMerge ==
    \/ \E merge_strategy \in MergeStrategies : load_all(merge_strategy)
    \/ get_aggregates

\* cost tables of three records in file order: any destination, any date or
\* none, and each of the two amounts present or missing
CostRecords(i) ==
    [destination_id : {1, 2},
     data_date : {<<>>, <<1>>, <<2>>},
     monthly_living_cost : {<<>>, <<1000 + i>>},
     rent : {<<>>, <<400 + i>>}]

CostTables == {t \in [RowIds -> UNION {CostRecords(i) : i \in RowIds}] :
                  \A i \in RowIds : t[i] \in CostRecords(i)}

InitCost ==
    /\ CacheIdle
    /\ KeyIdle
    /\ LoaderIdle
    /\ ApiIdle
    /\ data \in [destinations : {{1, 2}}, costs : CostTables, flights : {<<>>},
                 weather : {<<>>}]
    /\ df = <<>>
    /\ out = <<>>

SpecCost == InitCost /\ [][NextMerge]_vars

\* the cost records of destination d that carry the latest date of d
LatestRecords(costs, d) ==
    {r \in RowsOf(costs) :
        /\ r.destination_id = d
        /\ r.data_date # <<>>
        /\ \A q \in RowsOf(costs) :
              (q.destination_id = d /\ q.data_date # <<>>) => q.data_date[1] <= r.data_date[1]}

\* the cost fields a call hands out: all of them or the monthly cost alone
FieldsOut(op) == IF op = "load_all" THEN CostFields ELSE CostColumns

\* C16: in the result of load_all and of get_aggregates, the cost fields of a
\* destination that has one record of latest date are the fields of that record.
C16_CostFromLatestRecord ==
    [][out' # <<>>
       => \A row \in out'[1].rows :
             \A rec \in LatestRecords(data.costs, row.destination_id) :
                (LatestRecords(data.costs, row.destination_id) = {rec} /\ row.cost # <<>>)
                => \A f \in FieldsOut(out'[1].op) : row.cost[1][f] = rec[f]]_vars

\* with no cell missing in the records of the destination, the fields are
\* those of its latest record
C16_CostFromLatestCompleteRecord ==
    [][out' # <<>>
       => \A row \in out'[1].rows :
             \A rec \in LatestRecords(data.costs, row.destination_id) :
                (/\ LatestRecords(data.costs, row.destination_id) = {rec}
                 /\ row.cost # <<>>
                 /\ \A q \in RowsOf(data.costs) :
                       q.destination_id = row.destination_id
                       => \A f \in CostFields : q[f] # <<>>)
                => \A f \in FieldsOut(out'[1].op) : row.cost[1][f] = rec[f]]_vars

\* the rows a table of the merge specification is drawn from
CostPool ==
    << [destination_id |-> 1, data_date |-> <<1>>, monthly_living_cost |-> <<1000>>, rent |-> <<400>>],
       [destination_id |-> 1, data_date |-> <<2>>, monthly_living_cost |-> <<1100>>, rent |-> <<450>>],
       [destination_id |-> 2, data_date |-> <<1>>, monthly_living_cost |-> <<900>>, rent |-> <<300>>],
       [destination_id |-> 3, data_date |-> <<1>>, monthly_living_cost |-> <<800>>, rent |-> <<250>>] >>

FlightPool ==
    << [flight_id |-> 1, destination_id |-> 1, departure_date |-> 5, price |-> 100],
       [flight_id |-> 2, destination_id |-> 1, departure_date |-> 6, price |-> 120],
       [flight_id |-> 3, destination_id |-> 1, departure_date |-> 7, price |-> 90],
       [flight_id |-> 4, destination_id |-> 2, departure_date |-> 5, price |-> 200] >>

WeatherPool ==
    << [weather_id |-> 1, destination_id |-> 1, date |-> 5, temp_avg_c |-> 20],
       [weather_id |-> 2, destination_id |-> 1, date |-> 6, temp_avg_c |-> 22],
       [weather_id |-> 3, destination_id |-> 2, date |-> 6, temp_avg_c |-> 25] >>

RECURSIVE Pick(_, _)
\* the rows of the pool at the chosen positions, in pool order
Pick(pool, chosen) ==
    IF pool = <<>> THEN <<>>
    ELSE Pick(SubSeq(pool, 1, Len(pool) - 1), chosen)
            \o (IF Len(pool) \in chosen THEN <<pool[Len(pool)]>> ELSE <<>>)

TablesFrom(pool) == {Pick(pool, chosen) : chosen \in SUBSET DOMAIN pool}

InitMerge ==
    /\ CacheIdle
    /\ KeyIdle
    /\ LoaderIdle
    /\ ApiIdle
    /\ data \in [destinations : SUBSET {1, 2}, costs : TablesFrom(CostPool),
                 flights : TablesFrom(FlightPool), weather : TablesFrom(WeatherPool)]
    /\ df = <<>>
    /\ out = <<>>

SpecMerge == InitMerge /\ [][NextMerge]_vars

RowsFor(d) == {row \in out'[1].rows : row.destination_id = d}

FlightsFor(d) == {r \in RowsOf(data.flights) : r.destination_id = d}

\* C17: load_all with the left strategy and no weather rows gives, for a
\* listed destination with cost rows and f >= 1 flights, exactly f rows, and
\* for a listed destination without flights exactly one row.
C17_LeftFanOut ==
    [][(/\ out' # <<>>
        /\ out'[1].op = "load_all"
        /\ out'[1].merge_strategy = "left"
        /\ data.weather = <<>>)
       => \A d \in data.destinations :
             /\ (d \in DestinationsIn(data.costs) /\ FlightsFor(d) # {})
                   => Cardinality(RowsFor(d)) = Cardinality(FlightsFor(d))
             /\ FlightsFor(d) = {} => Cardinality(RowsFor(d)) = 1]_vars

\* C17 witness: destination 1 with two cost rows and three flights came out
\* as three rows, destination 2 without flights as one
C17_Witness ==
    /\ out # <<>>
    /\ out[1].op = "load_all"
    /\ out[1].merge_strategy = "left"
    /\ data.weather = <<>>
    /\ data.destinations = {1, 2}
    /\ Cardinality({r \in RowsOf(data.costs) : r.destination_id = 1}) = 2
    /\ Cardinality({r \in RowsOf(data.flights) : r.destination_id = 1}) = 3
    /\ Cardinality({r \in RowsOf(data.flights) : r.destination_id = 2}) = 0
    /\ Cardinality({row \in out[1].rows : row.destination_id = 1}) = 3
    /\ Cardinality({row \in out[1].rows : row.destination_id = 2}) = 1

\* C18: load_all with the inner strategy returns only rows of destinations
\* that have a cost row, a flight row and a weather row, whatever the four
\* tables hold; with the left strategy every listed destination has a row.
C18_InnerOnlyComplete ==
    [][(out' # <<>> /\ out'[1].op = "load_all")
       => /\ out'[1].merge_strategy = "inner"
             => \A row \in out'[1].rows :
                   /\ row.destination_id \in data.destinations
                   /\ row.destination_id \in DestinationsIn(data.costs)
                   /\ row.destination_id \in DestinationsIn(data.flights)
                   /\ row.destination_id \in DestinationsIn(data.weather)
          /\ out'[1].merge_strategy = "left"
             => \A d \in data.destinations : RowsFor(d) # {}]_vars

\* with flights and weather rows at hand the inner strategy keeps complete
\* destinations only, and the left strategy keeps every listed destination
C18_InnerOnlyCompleteOfNonEmptyTables ==
    [][(out' # <<>> /\ out'[1].op = "load_all")
       => /\ (out'[1].merge_strategy = "inner" /\ data.flights # <<>> /\ data.weather # <<>>)
             => \A row \in out'[1].rows :
                   /\ row.destination_id \in data.destinations
                   /\ row.cost # <<>>
                   /\ row.flight # <<>>
                   /\ row.weather # <<>>
                   /\ row.weather[1].date = row.flight[1].departure_date
          /\ out'[1].merge_strategy = "left"
             => \A d \in data.destinations : RowsFor(d) # {}]_vars

HasColumns(cols) == cols \subseteq out'[1].columns

\* C19 as stated: get_aggregates returns one row per listed destination
\* whatever the cost, flight and weather tables hold; with an empty flight
\* table the flight columns are absent and the cost and weather columns present.
C19_EmptyFlightsKeepCostAndWeather ==
    [][(out' # <<>> /\ out'[1].op = "get_aggregates")
       => /\ \A d \in data.destinations : Cardinality(RowsFor(d)) = 1
          /\ \A row \in out'[1].rows : row.destination_id \in data.destinations
          /\ data.flights = <<>>
             => /\ out'[1].columns \cap FlightColumns = {}
                /\ HasColumns(CostColumns)
                /\ HasColumns(WeatherColumns)]_vars

\* C19 amended: one row per listed destination; each group of aggregate
\* columns is present exactly when its table has rows, so an empty flight
\* table removes the flight columns and nothing else.
C19_ColumnsOfNonEmptyTables ==
    [][(out' # <<>> /\ out'[1].op = "get_aggregates")
       => /\ \A d \in data.destinations : Cardinality(RowsFor(d)) = 1
          /\ \A row \in out'[1].rows :
                /\ row.destination_id \in data.destinations
                /\ row.flight # <<>> <=> row.destination_id \in DestinationsIn(data.flights)
                /\ row.weather # <<>> <=> row.destination_id \in DestinationsIn(data.weather)
                /\ row.cost # <<>> <=> row.destination_id \in DestinationsIn(data.costs)
          /\ out'[1].columns \cap FlightColumns = {} <=> data.flights = <<>>
          /\ HasColumns(FlightColumns) <=> data.flights # <<>>
          /\ HasColumns(CostColumns) <=> data.costs # <<>>
          /\ HasColumns(WeatherColumns) <=> data.weather # <<>>]_vars

\* C19 witness: with no flight at all, two destinations came out as two rows
\* carrying the cost and weather aggregates and no flight column
C19_Witness ==
    /\ out # <<>>
    /\ out[1].op = "get_aggregates"
    /\ data.flights = <<>>
    /\ data.destinations = {1, 2}
    /\ Cardinality(out[1].rows) = 2
    /\ \A row \in out[1].rows : row.cost # <<>> /\ row.weather # <<>> /\ row.flight = <<>>
    /\ out[1].columns \cap FlightColumns = {}
    /\ CostColumns \cup WeatherColumns \subseteq out[1].columns

(***************************************************************************)
(* dashboard.load_data: the checks made on the destination dataset         *)
(***************************************************************************)
\* three of the ten required columns: a text column and two numeric ones
required_cols == {"Destination", "Flight Cost (GBP)", "Flight Time (hrs)"}

numeric_cols == {"Flight Cost (GBP)", "Flight Time (hrs)"}

\* the text of a cell in the file; "" is an empty cell
TextTokens == {"", "Paris"}

NumericTokens == {"", "expensive", "-100", "0", "800"}

TokensOf(col) == IF col \in numeric_cols THEN NumericTokens ELSE TextTokens

\* the number a token spells, if it spells one
IsNumber(tok) == tok \in {"-100", "0", "800"}

numeric_value(tok) ==
    CASE tok = "-100" -> -100
      [] tok = "0" -> 0
      [] tok = "800" -> 800

\* pd.to_numeric(errors="coerce") of a cell: the number, or missing
to_numeric_coerce(tok) == IF IsNumber(tok) THEN <<numeric_value(tok)>> ELSE <<>>

\* the files load_data can be given: absent, unreadable, or a table with at
\* least one column and at most two rows
CsvTables ==
    UNION {[columns : {cols}, rows : UNION {[1..n -> [cols -> NumericTokens \cup TextTokens]]
                                              : n \in 0..2}]
           : cols \in (SUBSET required_cols) \ {{}}}

CsvFiles ==
    {[file |-> f, columns |-> {}, rows |-> <<>>] : f \in {"missing", "unreadable"}}
    \cup {[file |-> "ok", columns |-> t.columns, rows |-> t.rows] :
             t \in {u \in CsvTables :
                       \A i \in DOMAIN u.rows : \A c \in u.columns : u.rows[i][c] \in TokensOf(c)}}

InitValidate ==
    /\ CacheIdle
    /\ KeyIdle
    /\ LoaderIdle
    /\ ApiIdle
    /\ data \in CsvFiles
    /\ df = <<>>
    /\ out = <<>>

\* the table load_data returns: the numeric columns coerced, the others as read
coerced(csv) ==
    [i \in DOMAIN csv.rows |->
        [c \in csv.columns |->
            IF c \in numeric_cols THEN to_numeric_coerce(csv.rows[i][c])
            ELSE IF csv.rows[i][c] = "" THEN <<>> ELSE <<csv.rows[i][c]>>]]

\* load_data: the error raised and by which check, or the table returned
load_data_result(csv) ==
    IF csv.file = "missing"
    THEN [raised |-> "DataLoadError", check |-> "file", missing_cols |-> {}, table |-> <<>>]
    ELSE IF csv.file = "unreadable"
    THEN [raised |-> "DataLoadError", check |-> "file", missing_cols |-> {}, table |-> <<>>]
    ELSE IF csv.rows = <<>>
    THEN [raised |-> "DataValidationError", check |-> "empty", missing_cols |-> {},
          table |-> <<>>]
    ELSE IF required_cols \ csv.columns # {}
    THEN [raised |-> "MissingColumnError", check |-> "missing",
          missing_cols |-> required_cols \ csv.columns, table |-> <<>>]
    ELSE [raised |-> None, check |-> None, missing_cols |-> {}, table |-> coerced(csv)]

load_data ==
    /\ LET r == load_data_result(data)
       IN  out' = <<[op |-> "load_data", raised |-> r.raised, check |-> r.check,
                     missing_cols |-> r.missing_cols, table |-> r.table]>>
    /\ UNCHANGED <<data, df, otherThanView>>

NextValidate == load_data

SpecValidate == InitValidate /\ [][NextValidate]_vars

\* the categories a table can fail, in the order of the checks
FailsEmpty(csv) == csv.rows = <<>>

FailsMissing(csv) == required_cols \ csv.columns # {}

FailsType(csv) ==
    \E i \in DOMAIN csv.rows : \E c \in csv.columns \cap numeric_cols :
        csv.rows[i][c] # "" /\ ~IsNumber(csv.rows[i][c])

\* the columns that may hold no missing value
critical_cols == {"Destination"}

FailsNull(csv) ==
    \E i \in DOMAIN csv.rows : \E c \in csv.columns \cap critical_cols : csv.rows[i][c] = ""

FailsRange(csv) ==
    \E i \in DOMAIN csv.rows : \E c \in csv.columns \cap numeric_cols :
        IsNumber(csv.rows[i][c]) /\ numeric_value(csv.rows[i][c]) <= 0

FirstFailing(csv) ==
    IF FailsEmpty(csv) THEN "empty"
    ELSE IF FailsMissing(csv) THEN "missing"
    ELSE IF FailsType(csv) THEN "type"
    ELSE IF FailsNull(csv) THEN "null"
    ELSE IF FailsRange(csv) THEN "range"
    ELSE None

\* C20: load_data of a readable file raises the error of the first category
\* the table fails, in the order empty, missing columns, numeric type, nulls
\* in critical columns, positive range, and returns the table if it fails none.
C20_FirstFailingCategoryDecides ==
    [][(out' # <<>> /\ data.file = "ok")
       => out'[1].check = FirstFailing(data)]_vars

\* an empty table raises the empty error and a table that lacks a required
\* column raises MissingColumnError naming every missing column, whatever
\* else is wrong with it
C20_EmptyThenMissingColumns ==
    [][(out' # <<>> /\ data.file = "ok")
       => /\ FailsEmpty(data) => out'[1].raised = "DataValidationError"
          /\ (~FailsEmpty(data) /\ FailsMissing(data))
                => /\ out'[1].raised = "MissingColumnError"
                   /\ out'[1].missing_cols = required_cols \ data.columns]_vars

\* C21: load_data never returns a table with a non-missing value <= 0 in the
\* cost or the flight-time column; for such a file it raises
\* DataValidationError (of which MissingColumnError is a kind).
C21_NoNonPositiveReturned ==
    [][(out' # <<>> /\ data.file = "ok" /\ FailsRange(data))
       => /\ out'[1].raised \in {"DataValidationError", "MissingColumnError"}
          /\ out'[1].table = <<>>]_vars

\* C28: a load that raises leaves the slot of its dataset as it was, and a
\* load without reload never returns rows of a table that was not coerced.
C28_RaisingLoadKeepsSlot ==
    [][\A d \in Datasets :
          LoadStep(d)
          => /\ lret'[1].raised # None => slot'[d] = slot[d]
             /\ (lret'[1].raised = None /\ ~lret'[1].reload) => slot'[d][1].typed]_vars

\* a load that raises on a missing or unparseable file leaves the slot as it was
C28_UnreadableFileKeepsSlot ==
    [][\A d \in Datasets :
          (LoadStep(d) /\ lret'[1].raised \in {"FileNotFoundError", "ParserError"})
          => slot'[d] = slot[d]]_vars


\* C29: eviction goes by recency alone and takes no account of expiry: a set of
\* a new key into a full cache removes the least recently used entry even if it
\* is unexpired, and every other entry, expired or not, stays stored. A get hit
\* makes the entry the most recently used and leaves its expiry as it was.
C29_RecencyNotExpiry ==
    [][\A k \in Keys :
          /\ (SetStep(k) /\ k \notin KeysOf(cache) /\ Len(cache) = max_size)
             => /\ last'.evicted = Oldest
                /\ \A j \in KeysOf(cache) \ Oldest :
                      /\ j \in KeysOf(cache')
                      /\ EntryOf(cache', j) = EntryOf(cache, j)
          /\ (GetStep(k) /\ last'.case = "hit")
             => /\ EntryOf(cache', k) = EntryOf(cache, k)
                /\ cache'[Len(cache')].key = k
                /\ KeysOf(cache') = KeysOf(cache)]_vars

\* a set has just evicted an unexpired entry while an expired one stays stored
C29_Witness ==
    /\ last.op = "set"
    /\ last.case = "new_full"
    /\ last.live # {}
    /\ \E j \in KeysOf(cache) \ {last.key} : Expired(j)

\* a hit on an entry that was not the most recent has just moved it to the end
C29_HitWitness ==
    /\ last.op = "get"
    /\ last.case = "hit"
    /\ Len(cache) = 2
    /\ acc[last.key] = 2
    /\ setAt[last.key].t < now


\* the positional arguments of two calls are the same values in another order
Reordered(a1, a2) ==
    /\ Len(a1) = Len(a2)
    /\ a1 # a2
    /\ \A v \in ArgStrings :
          Cardinality({i \in DOMAIN a1 : a1[i] = v}) = Cardinality({i \in DOMAIN a2 : a2[i] = v})

SameKeywords(c1, c2) ==
    {c1.kwargs[i] : i \in DOMAIN c1.kwargs} = {c2.kwargs[i] : i \in DOMAIN c2.kwargs}

\* C25: _get_cache_key gives two calls with the same positional arguments and
\* the same keyword arguments in any keyword order the same key, and gives two
\* calls whose positional arguments are the same values in another order
\* different keys.
C25_KeywordOrderOnly ==
    (Probed /\ kfn = "with_cache")
    => /\ SameArguments(kprobe[1], kstored[1]) => kprobe[1].key = kstored[1].key
       /\ (Reordered(kprobe[1].args, kstored[1].args) /\ SameKeywords(kprobe[1], kstored[1]))
          => kprobe[1].key # kstored[1].key

\* the key does not depend on the order of the keyword arguments
C25_KeywordOrderIrrelevant ==
    (Probed /\ kfn = "with_cache" /\ SameArguments(kprobe[1], kstored[1]))
    => kprobe[1].key = kstored[1].key

\* two calls with the keywords in different orders have just got the same key
C25_KeywordWitness ==
    /\ Probed
    /\ kfn = "with_cache"
    /\ kprobe[1].args = kstored[1].args
    /\ Len(kstored[1].kwargs) = 2
    /\ kprobe[1].kwargs # kstored[1].kwargs
    /\ kprobe[1].hit


(***************************************************************************)
(* CacheManager: one JSON file per key, holding the data, its expiry and   *)
(* its creation time.  A Python value is a record of its type, its keys or *)
(* column names and its rows of cells; a cell is <<type, text>>.           *)
(***************************************************************************)
DiskKeys == {"test_key"}

DiskTTLs == {1, 2}

Cell(type, text) == <<type, text>>

PyValue(t, cols, rows) == [t |-> t, cols |-> cols, rows |-> rows]

PyNone == PyValue("NoneType", <<>>, <<>>)

\* values a client caches that json can write as they are
PlainValues ==
    { PyNone,
      PyValue("int", <<>>, << <<Cell("int", "1")>> >>),
      PyValue("str", <<>>, << <<Cell("str", "data")>> >>),
      PyValue("list", <<>>, << <<Cell("int", "1"), Cell("int", "2"), Cell("int", "3")>> >>),
      PyValue("dict", <<"test", "numbers">>, << <<Cell("str", "data"), Cell("int", "1")>> >>) }

\* tables a fetcher caches: numbers, text, and the parsed date column of the
\* flight and weather tables
TableValues ==
    { PyValue("DataFrame", <<"destination_id", "price">>,
              << <<Cell("int", "1"), Cell("float", "120.5")>>,
                 <<Cell("int", "2"), Cell("float", "89.0")>> >>),
      PyValue("DataFrame", <<"price", "destination_id">>,
              << <<Cell("float", "89.0"), Cell("int", "2")>> >>),
      PyValue("DataFrame", <<"destination_id", "data_source">>,
              << <<Cell("int", "1"), Cell("str", "demo1")>> >>),
      PyValue("DataFrame", <<"destination_id", "departure_date">>,
              << <<Cell("int", "1"), Cell("Timestamp", "2025-10-05 00:00:00")>>,
                 <<Cell("int", "2"), Cell("Timestamp", "2025-10-06 00:00:00")>> >>),
      PyValue("DataFrame", <<"destination_id", "price">>, <<>>) }

DiskValues == PlainValues \cup TableValues

\* Timestamp.isoformat()
isoformat(text) ==
    IF text = "2025-10-05 00:00:00" THEN "2025-10-05T00:00:00"
    ELSE IF text = "2025-10-06 00:00:00" THEN "2025-10-06T00:00:00"
    ELSE text

\* the number texts that json reads back as float: those with a fraction
FloatTexts == {"120.5", "89.0"}

\* json.dump of one cell
json_dump_cell(c) ==
    IF c[1] \in {"int", "float"} THEN <<"number", c[2]>>
    ELSE IF c[1] = "str" THEN <<"string", c[2]>>
    ELSE <<"null", "null">>

\* json.load of one cell
json_load_cell(c) ==
    IF c[1] = "number" THEN (IF c[2] \in FloatTexts THEN Cell("float", c[2]) ELSE Cell("int", c[2]))
    ELSE IF c[1] = "string" THEN Cell("str", c[2])
    ELSE Cell("NoneType", "None")

json_type(t) ==
    IF t = "NoneType" THEN "null"
    ELSE IF t \in {"int", "float"} THEN "number"
    ELSE IF t = "str" THEN "string"
    ELSE IF t = "list" THEN "array"
    ELSE "object"

python_type(t, rows) ==
    IF t = "null" THEN "NoneType"
    ELSE IF t = "number" THEN rows[1][1][1]
    ELSE IF t = "string" THEN "str"
    ELSE IF t = "array" THEN "list"
    ELSE "dict"

\* DataFrame.to_dict("records"): one dict per row, column name -> cell
to_dict_records(v) ==
    [i \in DOMAIN v.rows |->
        [c \in {v.cols[j] : j \in DOMAIN v.cols} |->
            v.rows[i][CHOOSE j \in DOMAIN v.cols : v.cols[j] = c]]]

\* set: every Timestamp of a record is replaced by its isoformat() string
timestamps_to_text(records) ==
    [i \in DOMAIN records |->
        [c \in DOMAIN records[i] |->
            IF records[i][c][1] = "Timestamp"
            THEN Cell("str", isoformat(records[i][c][2]))
            ELSE records[i][c]]]

\* set: the value written under "data", as JSON
data_to_cache(v) ==
    IF v.t = "DataFrame"
    THEN LET records == timestamps_to_text(to_dict_records(v))
         IN  [t |-> "dataframe", cols |-> v.cols,
              records |-> [i \in DOMAIN records |->
                              [c \in DOMAIN records[i] |-> json_dump_cell(records[i][c])]],
              rows |-> <<>>]
    ELSE [t |-> json_type(v.t), cols |-> v.cols, records |-> <<>>,
          rows |-> [i \in DOMAIN v.rows |->
                      [j \in DOMAIN v.rows[i] |-> json_dump_cell(v.rows[i][j])]]]

\* get: pd.DataFrame(data["_data"], columns=data["_columns"]) for the marked
\* dict, the loaded JSON value otherwise
deserialize(d) ==
    IF d.t = "dataframe"
    THEN PyValue("DataFrame", d.cols,
                 [i \in DOMAIN d.records |->
                     [j \in DOMAIN d.cols |-> json_load_cell(d.records[i][d.cols[j]])]])
    ELSE LET rows == [i \in DOMAIN d.rows |->
                         [j \in DOMAIN d.rows[i] |-> json_load_cell(d.rows[i][j])]]
         IN  PyValue(python_type(d.t, rows), d.cols, rows)

NoData == [t |-> "null", cols |-> <<>>, records |-> <<>>, rows |-> <<>>]

\* a cache file: what json.load makes of it ("invalid": it is not JSON), and
\* for an object its "expiry" and "data" fields (<<>>: the field is missing)
CacheFile(json, expiry, d) == [json |-> json, expiry |-> expiry, data |-> d]

\* the "expiry" field: an ISO timestamp string, another string, a number, null
Expiry(t, at) == [t |-> t, at |-> at]

\* set: the file written for a value at a time
written(v, ttl, t) ==
    CacheFile("object", <<Expiry("iso", t + ttl)>>, <<data_to_cache(v)>>)

\* files that are not a well-formed entry
MalformedFiles ==
    { CacheFile("invalid", <<>>, <<>>),
      CacheFile("array", <<>>, <<>>),
      CacheFile("string", <<>>, <<>>),
      CacheFile("number", <<>>, <<>>),
      CacheFile("null", <<>>, <<>>),
      CacheFile("object", <<>>, <<NoData>>),
      CacheFile("object", <<Expiry("iso", MaxTime)>>, <<>>),
      CacheFile("object", <<Expiry("text", 0)>>, <<NoData>>),
      CacheFile("object", <<Expiry("number", 0)>>, <<NoData>>),
      CacheFile("object", <<Expiry("null", 0)>>, <<NoData>>) }

\* CacheManager.get on an existing file: what it returns or raises, and
\* whether it unlinks the file
get_file_result(f, t) ==
    IF f.json = "invalid"
    THEN [raised |-> None, caught |-> "JSONDecodeError", ret |-> PyNone, unlink |-> TRUE]
    ELSE IF f.json # "object"
    THEN [raised |-> "TypeError", caught |-> None, ret |-> PyNone, unlink |-> FALSE]
    ELSE IF f.expiry = <<>>
    THEN [raised |-> None, caught |-> "KeyError", ret |-> PyNone, unlink |-> TRUE]
    ELSE IF f.expiry[1].t \in {"number", "null"}
    THEN [raised |-> "TypeError", caught |-> None, ret |-> PyNone, unlink |-> FALSE]
    ELSE IF f.expiry[1].t = "text"
    THEN [raised |-> None, caught |-> "ValueError", ret |-> PyNone, unlink |-> TRUE]
    ELSE IF t > f.expiry[1].at
    THEN [raised |-> None, caught |-> None, ret |-> PyNone, unlink |-> TRUE]
    ELSE IF f.data = <<>>
    THEN [raised |-> None, caught |-> "KeyError", ret |-> PyNone, unlink |-> TRUE]
    ELSE [raised |-> None, caught |-> None, ret |-> deserialize(f.data[1]), unlink |-> FALSE]

InitDisk ==
    /\ CacheIdle
    /\ KeyIdle
    /\ LoaderIdle
    /\ clock = 0
    /\ calls = <<>>
    /\ sent = <<>>
    /\ data = [k \in DiskKeys |-> <<>>]
    /\ df = [k \in DiskKeys |-> <<>>]
    /\ out = <<>>

diskFrame == <<cacheVars, keyVars, loaderVars, calls, sent>>

\* CacheManager.get
CacheManager_get(key) ==
    /\ IF data[key] = <<>>
       THEN /\ out' = <<[op |-> "get", key |-> key, raised |-> None, caught |-> None,
                         ret |-> PyNone, existed |-> FALSE]>>
            /\ UNCHANGED <<data, df>>
       ELSE LET r == get_file_result(data[key][1], clock)
            IN  /\ out' = <<[op |-> "get", key |-> key, raised |-> r.raised,
                             caught |-> r.caught, ret |-> r.ret, existed |-> TRUE]>>
                /\ data' = [data EXCEPT ![key] = IF r.unlink THEN <<>> ELSE @]
                /\ df' = [df EXCEPT ![key] = IF r.unlink THEN <<>> ELSE @]
    /\ UNCHANGED <<clock, diskFrame>>

\* CacheManager.set
CacheManager_set(key, v, ttl) ==
    /\ data' = [data EXCEPT ![key] = <<written(v, ttl, clock)>>]
    /\ df' = [df EXCEPT ![key] = <<[value |-> v, expiry |-> clock + ttl]>>]
    /\ out' = <<[op |-> "set", key |-> key, raised |-> None, caught |-> None,
                 ret |-> PyNone, existed |-> data[key] # <<>>]>>
    /\ UNCHANGED <<clock, diskFrame>>

\* CacheManager.clear(key)
CacheManager_clear(key) ==
    /\ data' = [data EXCEPT ![key] = <<>>]
    /\ df' = [df EXCEPT ![key] = <<>>]
    /\ out' = <<[op |-> "clear", key |-> key, raised |-> None, caught |-> None,
                 ret |-> PyNone, existed |-> data[key] # <<>>]>>
    /\ UNCHANGED <<clock, diskFrame>>

\* the file of a key is overwritten from outside by one that is not a
\* well-formed entry
Corrupt(key, f) ==
    /\ data' = [data EXCEPT ![key] = <<f>>]
    /\ df' = [df EXCEPT ![key] = <<>>]
    /\ out' = <<[op |-> "corrupt", key |-> key, raised |-> None, caught |-> None,
                 ret |-> PyNone, existed |-> data[key] # <<>>]>>
    /\ UNCHANGED <<clock, diskFrame>>

TickDisk ==
    /\ clock < MaxTime
    /\ clock' = clock + 1
    /\ out' = <<>>
    /\ UNCHANGED <<data, df, diskFrame>>

NextDisk ==
    \/ \E key \in DiskKeys : CacheManager_get(key)
    \/ \E key \in DiskKeys, v \in DiskValues, ttl \in DiskTTLs : CacheManager_set(key, v, ttl)
    \/ \E key \in DiskKeys : CacheManager_clear(key)
    \/ \E key \in DiskKeys, f \in MalformedFiles : Corrupt(key, f)
    \/ TickDisk

SpecDisk == InitDisk /\ [][NextDisk]_vars

DiskGet(key) == out' # <<>> /\ out'[1].op = "get" /\ out'[1].key = key

\* C22: get on a key whose file is malformed returns None, deletes the file
\* and does not raise.
C22_MalformedIsMiss ==
    [][\A key \in DiskKeys :
          (DiskGet(key) /\ data[key] # <<>> /\ data[key][1] \in MalformedFiles)
          => /\ out'[1].raised = None
             /\ out'[1].ret = PyNone
             /\ data'[key] = <<>>]_vars

\* the malformed files that get treats as a miss: text that is not JSON, an
\* object without "expiry" or without "data", an "expiry" string that is not
\* an ISO timestamp
C22_CaughtIsMiss ==
    [][\A key \in DiskKeys :
          (DiskGet(key) /\ data[key] # <<>> /\ data[key][1] \in MalformedFiles
             /\ data[key][1].json \in {"invalid", "object"}
             /\ (data[key][1].expiry # <<>> => data[key][1].expiry[1].t \in {"iso", "text"}))
          => /\ out'[1].raised = None
             /\ out'[1].ret = PyNone
             /\ data'[key] = <<>>]_vars

\* C23: a get of a key before the expiry of the value last set under it
\* returns a value equal to that value, for plain values and for tables.
C23_RoundTrip ==
    [][\A key \in DiskKeys :
          (DiskGet(key) /\ df[key] # <<>> /\ clock < df[key][1].expiry)
          => /\ out'[1].raised = None
             /\ out'[1].ret = df[key][1].value]_vars

\* a table comes back with its columns in order and its rows, every cell as it
\* was except that a Timestamp is the str of its isoformat(); a plain value
\* comes back equal
C23_RoundTripButTimestamps ==
    [][\A key \in DiskKeys :
          (DiskGet(key) /\ df[key] # <<>> /\ clock <= df[key][1].expiry)
          => LET v == df[key][1].value
                 r == out'[1].ret
             IN  /\ out'[1].raised = None
                 /\ r.t = v.t
                 /\ r.cols = v.cols
                 /\ DOMAIN r.rows = DOMAIN v.rows
                 /\ \A i \in DOMAIN v.rows : \A j \in DOMAIN v.rows[i] :
                       r.rows[i][j] = IF v.rows[i][j][1] = "Timestamp"
                                      THEN Cell("str", isoformat(v.rows[i][j][2]))
                                      ELSE v.rows[i][j]]_vars


(***************************************************************************)
(* RateLimiter: one thread calling wait_if_needed; time in whole seconds   *)
(***************************************************************************)
Clock == 0..4

\* max_calls and period: the limiter of test_rate_limiter_blocks_over_limit
\* and smaller ones
LimiterConfigs ==
    { [max_calls |-> 2, period |-> 2],
      [max_calls |-> 1, period |-> 2],
      [max_calls |-> 2, period |-> 1] }

\* the calls inside the current period
in_period(cs, t, period) == SelectSeq(cs, LAMBDA c : t - c < period)

RECURSIVE min(_)
\* min(self.calls)
min(cs) ==
    IF Len(cs) = 1 THEN cs[1]
    ELSE LET m == min(Tail(cs)) IN IF cs[1] <= m THEN cs[1] ELSE m

\* self.calls = [] after time.sleep(wait_time)
after_sleep(cs) == <<>>

\* wait_if_needed at time t: how long it sleeps, when it returns and the
\* calls it has recorded then
wait_result(cs, t, cfg) ==
    LET kept == in_period(cs, t, cfg.period)
        wait_time == IF Len(kept) >= cfg.max_calls
                     THEN cfg.period - (t - min(kept))
                     ELSE 0
        left == IF Len(kept) >= cfg.max_calls /\ wait_time > 0 THEN after_sleep(kept) ELSE kept
        slept == IF wait_time > 0 THEN wait_time ELSE 0
    IN  [seen |-> kept, slept |-> slept, returned |-> t + slept,
         calls |-> Append(left, t + slept)]

limiterFrame == <<cacheVars, keyVars, loaderVars, df>>

InitLimiter ==
    /\ CacheIdle
    /\ KeyIdle
    /\ LoaderIdle
    /\ df = <<>>
    /\ data \in LimiterConfigs
    /\ clock = 0
    /\ calls = <<>>
    /\ sent = <<>>
    /\ out = <<>>

\* RateLimiter.wait_if_needed, with the sleep it may make
wait_if_needed ==
    LET r == wait_result(calls, clock, data)
    IN  /\ r.returned \in Clock
        /\ clock' = r.returned
        /\ calls' = r.calls
        /\ sent' = Append(sent, r.returned)
        /\ out' = <<[op |-> "wait_if_needed", at |-> clock, seen |-> r.seen,
                     slept |-> r.slept]>>
        /\ UNCHANGED <<data, limiterFrame>>

\* time passes between two calls
TickLimiter ==
    /\ clock + 1 \in Clock
    /\ clock' = clock + 1
    /\ out' = <<>>
    /\ UNCHANGED <<data, calls, sent, limiterFrame>>

NextLimiter ==
    \/ wait_if_needed
    \/ TickLimiter

SpecLimiter == InitLimiter /\ [][NextLimiter]_vars

\* the calls let through in the window of length period that starts at w
LetThrough(w) == {i \in DOMAIN sent : w <= sent[i] /\ sent[i] < w + data.period}

\* C26: in every window of length period at most max_calls calls are let
\* through; a call that finds max_calls calls in the window returns when the
\* oldest of them has left it, and one that finds fewer returns at once.
C26_WindowBounded ==
    /\ \A w \in Clock : Cardinality(LetThrough(w)) <= data.max_calls
    /\ out # <<>>
       => IF Len(out[1].seen) >= data.max_calls
          THEN clock = min(out[1].seen) + data.period
          ELSE out[1].slept = 0

\* a call that finds max_calls recorded calls in the current period returns
\* when the oldest of them has left it; one that finds fewer returns at once
C26_BlocksOnRecordedCalls ==
    out # <<>>
    => IF Len(out[1].seen) >= data.max_calls
       THEN clock = min(out[1].seen) + data.period /\ out[1].slept > 0
       ELSE out[1].slept = 0 /\ clock = out[1].at

\* a call has just slept because max_calls calls were in the period
C26_BlockedWitness ==
    /\ out # <<>>
    /\ out[1].slept > 0
    /\ Len(out[1].seen) = data.max_calls


(***************************************************************************)
(* BaseAPIClient._make_request: the limiter, then the attempts             *)
(***************************************************************************)
Horizon == 0..6

RetryLimits == {0, 1, 2, 3}    \* max_retries: none, the one of the tests, the default 3

Outcome(kind, status) == [kind |-> kind, status |-> status]

\* what session.request, raise_for_status and response.json make of one
\* attempt: a response that is returned, a requests Timeout, a requests
\* ConnectionError, an HTTPError of a 5xx or a 4xx status, or an exception
\* that is not a RequestException
Outcomes ==
    { Outcome("ok", 200),
      Outcome("Timeout", 0),
      Outcome("ConnectionError", 0),
      Outcome("HTTPError", 500),
      Outcome("HTTPError", 404),
      Outcome("Exception", 0) }

\* the limiters a client is built with: none, or one of RateLimiter(rate_limit, rate_period)
ClientLimiters == {<<>>, <<[max_calls |-> 1, period |-> 2]>>, <<[max_calls |-> 2, period |-> 2]>>}

\* a client that never consults its limiter
consult_never(cs, t, limiter) == [calls |-> cs, at |-> t]

\* if self.rate_limiter: self.rate_limiter.wait_if_needed()
consult(cs, t, limiter) ==
    IF limiter = <<>> THEN [calls |-> cs, at |-> t]
    ELSE LET r == wait_result(cs, t, limiter[1])
         IN  [calls |-> r.calls, at |-> r.returned]

\* a client that also retries after an HTTP error of a 4xx status
retry_after_any_status(o, attempt, max_retries) ==
    /\ attempt < max_retries - 1
    /\ o.kind \in {"Timeout", "HTTPError", "ConnectionError"}

\* the except clauses that sleep and go on to the next attempt
retry_after(o, attempt, max_retries) ==
    /\ attempt < max_retries - 1
    /\ \/ o.kind = "Timeout"
       \/ o.kind = "HTTPError" /\ o.status >= 500
       \/ o.kind = "ConnectionError"

\* time.sleep(2**attempt)
backoff(attempt) == 2 ^ attempt

RECURSIVE request_attempts(_, _, _, _)
\* for attempt in range(max_retries): the attempts made from one on, when
\* each is made, and how the loop ends
request_attempts(attempt, t, outcomes, max_retries) ==
    IF attempt >= max_retries
    THEN [log |-> <<>>, raised |-> "RequestException", raisedAt |-> -1, end |-> t]
    ELSE LET o == outcomes[attempt + 1]
             this == [attempt |-> attempt, at |-> t, outcome |-> o]
         IN  IF o.kind = "ok"
             THEN [log |-> <<this>>, raised |-> None, raisedAt |-> -1, end |-> t]
             ELSE IF retry_after(o, attempt, max_retries)
             THEN LET rest == request_attempts(attempt + 1, t + backoff(attempt),
                                               outcomes, max_retries)
                  IN  [rest EXCEPT !.log = <<this>> \o @]
             ELSE [log |-> <<this>>, raised |-> o.kind, raisedAt |-> attempt, end |-> t]

requestFrame == <<cacheVars, keyVars, loaderVars, df>>

InitRequest ==
    /\ CacheIdle
    /\ KeyIdle
    /\ LoaderIdle
    /\ df = <<>>
    /\ data \in ClientLimiters
    /\ clock = 0
    /\ calls = <<>>
    /\ sent = <<>>
    /\ out = <<>>

\* BaseAPIClient._make_request
make_request(max_retries, outcomes) ==
    LET lim == consult(calls, clock, data)
        r == request_attempts(0, lim.at, outcomes, max_retries)
    IN  /\ r.end \in Horizon
        /\ clock' = r.end
        /\ calls' = lim.calls
        /\ sent' = r.log
        /\ out' = <<[op |-> "_make_request", max_retries |-> max_retries, at |-> clock,
                     raised |-> r.raised, raisedAt |-> r.raisedAt]>>
        /\ UNCHANGED <<data, requestFrame>>

\* time passes between two requests
TickRequest ==
    /\ clock + 1 \in Horizon
    /\ clock' = clock + 1
    /\ UNCHANGED <<data, calls, sent, out, requestFrame>>

NextRequest ==
    \/ \E max_retries \in RetryLimits :
          \E outcomes \in [1..max_retries -> Outcomes] : make_request(max_retries, outcomes)
    \/ TickRequest

SpecRequest == InitRequest /\ [][NextRequest]_vars

Retryable(o) ==
    \/ o.kind \in {"Timeout", "ConnectionError"}
    \/ o.kind = "HTTPError" /\ o.status >= 500

C30_LimiterOncePerRequest ==
    [][(data # <<>> /\ (sent' # sent \/ out' # out \/ calls' # calls))
       => LET kept == in_period(calls, clock, data[1].period)
              full == Len(kept) >= data[1].max_calls
          IN  /\ calls' # <<>>
              /\ Len(calls') = IF full THEN 1 ELSE Len(kept) + 1
              /\ calls'[Len(calls')] = IF full THEN min(kept) + data[1].period ELSE clock
              /\ sent' # <<>> => sent'[1].at = calls'[Len(calls')]
              /\ \A i \in DOMAIN sent' :
                    i > 1 => \A j \in DOMAIN calls' : calls'[j] < sent'[i].at]_vars

\* C30 witness: one recorded call stands for the three attempts of a request
C30_Witness ==
    /\ data # <<>>
    /\ out # <<>>
    /\ Len(sent) = 3
    /\ out[1].max_retries = 3
    /\ Len(calls) = 1
    /\ calls[1] = sent[1].at
    /\ sent[3].at > calls[1]


(***************************************************************************)
(* The fetchers: fetch_prices, fetch_forecast and fetch_costs, each under  *)
(* with_cache, with the CSV fallback of its class                          *)
(***************************************************************************)
Fetchers == {"fetch_prices", "fetch_forecast", "fetch_costs"}

\* a fetcher and the number of destinations it is called for
FetchCalls ==
    { <<"fetch_prices", 1>>, <<"fetch_forecast", 0>>, <<"fetch_forecast", 1>>,
      <<"fetch_costs", 1>> }

\* the configuration and the surroundings of the clients: whether the API key
\* (and base URL) is set, whether requests are answered, whether the CSV files
\* can be loaded
Environments == [api_key : BOOLEAN, api : {"up", "down"}, csv : {"ok", "fails"}]

EmptyTable == PyValue("DataFrame", <<>>, <<>>)

\* data_loader.load_flights / load_weather / load_costs (data_source="demo1")
DemoTable(f) ==
    IF f = "fetch_prices"
    THEN PyValue("DataFrame", <<"destination_id", "departure_date", "data_source">>,
                 << <<Cell("int", "1"), Cell("Timestamp", "2025-10-05 00:00:00"),
                      Cell("str", "demo1")>> >>)
    ELSE IF f = "fetch_forecast"
    THEN PyValue("DataFrame", <<"destination_id", "date", "data_source">>,
                 << <<Cell("int", "1"), Cell("Timestamp", "2025-10-05 00:00:00"),
                      Cell("str", "demo1")>> >>)
    ELSE PyValue("DataFrame", <<"destination_id", "monthly_living_cost", "data_source">>,
                 << <<Cell("int", "1"), Cell("int", "1200"), Cell("str", "demo1")>> >>)

\* the table built from the answers of the API
ApiTable(f) ==
    IF f = "fetch_forecast"
    THEN PyValue("DataFrame", <<"destination_id", "date", "data_source">>,
                 << <<Cell("int", "1"), Cell("str", "2025-10-05"),
                      Cell("str", "openweathermap")>> >>)
    ELSE PyValue("DataFrame", <<"destination_id", "monthly_living_cost", "data_source">>,
                 << <<Cell("int", "1"), Cell("int", "1950"), Cell("str", "teleport")>> >>)

\* _fallback_to_csv: the demo rows of the CSV file, an empty table if loading fails
fallback_to_csv(f, env) == IF env.csv = "ok" THEN DemoTable(f) ELSE EmptyTable

\* WeatherDataFetcher._fetch_for_location: an empty table if the request fails
fetch_for_location(env) == IF env.api = "up" THEN ApiTable("fetch_forecast") ELSE EmptyTable

\* the body of the fetcher, for n destinations
fetch_body(f, n, env) ==
    IF f = "fetch_prices" THEN fallback_to_csv(f, env)
    ELSE IF f = "fetch_forecast"
    THEN IF ~env.api_key THEN fallback_to_csv(f, env)
         ELSE IF n = 0 THEN fallback_to_csv(f, env)
         ELSE fetch_for_location(env)
    ELSE IF n = 0 \/ env.api = "down" THEN fallback_to_csv(f, env)
         ELSE ApiTable(f)

FetchTTL == 2

\* the cache files a fetcher can find damaged: a JSON array, text that is not JSON
DamagedFiles == {CacheFile("array", <<>>, <<>>), CacheFile("invalid", <<>>, <<>>)}

\* with_cache.wrapper around the body: what the call returns or raises and the
\* cache file it leaves (<<>>: none)
with_cache_result(file, f, n, env, t) ==
    LET got == IF file = <<>>
               THEN [raised |-> None, caught |-> None, ret |-> PyNone, unlink |-> FALSE]
               ELSE get_file_result(file[1], t)
        result == fetch_body(f, n, env)
    IN  IF got.raised # None
        THEN [raised |-> got.raised, ret |-> PyNone, hit |-> FALSE, file |-> file]
        ELSE IF got.ret # PyNone
        THEN [raised |-> None, ret |-> got.ret, hit |-> TRUE, file |-> file]
        ELSE [raised |-> None, ret |-> result, hit |-> FALSE,
              file |-> <<written(result, FetchTTL, t)>>]

fetchFrame == <<cacheVars, keyVars, loaderVars, apiVars>>

InitFetch ==
    /\ CacheIdle
    /\ KeyIdle
    /\ LoaderIdle
    /\ ApiIdle
    /\ data \in Environments
    /\ df = [c \in FetchCalls |-> <<>>]
    /\ out = <<>>

\* fetch_prices / fetch_forecast / fetch_costs
fetch(f, n) ==
    LET r == with_cache_result(df[<<f, n>>], f, n, data, clock)
    IN  /\ df' = [df EXCEPT ![<<f, n>>] = r.file]
        /\ out' = <<[op |-> f, n |-> n, raised |-> r.raised, ret |-> r.ret, hit |-> r.hit,
                     cached |-> df[<<f, n>>] # <<>>]>>
        /\ UNCHANGED <<data, fetchFrame>>

\* the cache file of a call is damaged from outside
DamageCache(c, file) ==
    /\ df' = [df EXCEPT ![c] = <<file>>]
    /\ out' = <<>>
    /\ UNCHANGED <<data, fetchFrame>>

\* CacheManager.clear()
ClearFetchCache ==
    /\ df' = [c \in FetchCalls |-> <<>>]
    /\ out' = <<>>
    /\ UNCHANGED <<data, fetchFrame>>

NextFetch ==
    \/ \E c \in FetchCalls : fetch(c[1], c[2])
    \/ \E c \in FetchCalls, file \in DamagedFiles : DamageCache(c, file)
    \/ ClearFetchCache

SpecFetch == InitFetch /\ [][NextFetch]_vars

\* the fetcher cannot use its API: a credential it needs is not set, or its
\* requests fail
ApiUnusable(f) ==
    \/ f \in {"fetch_prices", "fetch_forecast"} /\ ~data.api_key
    \/ data.api = "down"

\* C24: a fetcher never raises, and when its credentials are absent or its
\* API fails it returns the demo rows of the CSV path, or an empty table if
\* that path fails.
C24_NeverRaisesFallsBack ==
    [][\A f \in Fetchers :
          (out' # <<>> /\ out'[1].op = f)
          => /\ out'[1].raised = None
             /\ ApiUnusable(f) => out'[1].ret = fallback_to_csv(f, data)]_vars

\* a call that finds no cache file does not raise, and returns the CSV path's
\* result when its API is unusable, unless it is fetch_forecast with a key and
\* at least one destination
C24_UncachedFallsBack ==
    [][\A f \in Fetchers :
          (out' # <<>> /\ out'[1].op = f /\ ~out'[1].cached)
          => /\ out'[1].raised = None
             /\ (ApiUnusable(f) /\ ~(f = "fetch_forecast" /\ data.api_key /\ out'[1].n > 0))
                => out'[1].ret = fallback_to_csv(f, data)]_vars

====
